---------------------------- MODULE Spec2Model ----------------------------
(***************************************************************************)
(* Model of the banking assistant's session authentication and            *)
(* conversation state machine (ehzawad/bankingopenai).                     *)
(*                                                                         *)
(* Python dicts are functions whose DOMAIN is the key set; Python None is  *)
(* the string None; time.time() is the integer clock `now` (seconds).      *)
(* Every method is an operator over the values it reads, returning the     *)
(* values it writes, so that an action states the whole handler.           *)
(***************************************************************************)
EXTENDS Integers, Sequences, FiniteSets, TLC

VARIABLES
    now,                    \* time.time()
    authenticated_sessions, \* AuthenticationManager.authenticated_sessions
    session_contexts,       \* SessionContextManager.session_contexts
    conversations,          \* ConversationManager.conversations
    inflight,               \* process_message calls suspended at an await of the LLM
    ever_authenticated,     \* history: the sessions authenticate_session was called for
    call                    \* history: the last operation, its arguments, result and effects

vars == <<now, authenticated_sessions, session_contexts, conversations, inflight,
          ever_authenticated, call>>

None == "None"

Sessions == {"s1", "s2"}

(***************************************************************************)
(* Bounds of the model.                                                    *)
(***************************************************************************)
MaxNow == 902

\* The clock advances in steps that reach 900 s (= 450 + 450), 901 s and 902 s.
TickSteps == {450, 451}

(***************************************************************************)
(* AuthenticationManager (src/src/services/authentication/auth_manager.py) *)
(***************************************************************************)
SESSION_TIMEOUT == 900

AccountNumbers == {"1311002345678", "1308001234567"}

\* A dict without key k.
DictDel(d, k) == [x \in DOMAIN d \ {k} |-> d[x]]

\* A dict with d[k] = v, the key added when it is new.
DictSet(d, k, v) == [x \in DOMAIN d \cup {k} |-> IF x = k THEN v ELSE d[x]]

EmptyDict == [x \in {} |-> None]

authenticate_session(store, session_id, account_number, t) ==
    DictSet(store, session_id, [account |-> account_number, last_activity |-> t])

get_authenticated_account(store, session_id) ==
    IF session_id \in DOMAIN store THEN store[session_id].account ELSE None

\* A lazily expiring variant: the read deletes the record it finds expired.
is_authenticated_lazy_expiry(store, session_id, t) ==
    IF session_id \notin DOMAIN store
    THEN [ret |-> FALSE, store |-> store]
    ELSE IF (t - store[session_id].last_activity) <= SESSION_TIMEOUT
         THEN [ret |-> TRUE, store |-> store]
         ELSE [ret |-> FALSE, store |-> DictDel(store, session_id)]

\* A variant whose session ends when the age reaches the timeout.
is_authenticated_until_ttl(store, session_id, t) ==
    IF session_id \notin DOMAIN store
    THEN [ret |-> FALSE, store |-> store]
    ELSE [ret |-> (t - store[session_id].last_activity) < SESSION_TIMEOUT,
          store |-> store]

\* Returns the result and the (unchanged) record store.
is_authenticated(store, session_id, t) ==
    IF session_id \notin DOMAIN store
    THEN [ret |-> FALSE, store |-> store]
    ELSE [ret |-> (t - store[session_id].last_activity) <= SESSION_TIMEOUT,
          store |-> store]

update_session_activity(store, session_id, t) ==
    IF session_id \in DOMAIN store
    THEN [store EXCEPT ![session_id] =
             [account |-> store[session_id].account, last_activity |-> t]]
    ELSE store

\* A sweep that takes the boundary age itself as expired.
cleanup_expired_sessions_at_ttl(store, t) ==
    LET expired_sessions ==
            {s \in DOMAIN store : t - store[s].last_activity >= SESSION_TIMEOUT}
    IN  [ret |-> expired_sessions,
         store |-> [s \in DOMAIN store \ expired_sessions |-> store[s]]]

\* Returns the expired ids (the list, as the set of its elements: the keys of a
\* dict are distinct) and the store without them.
cleanup_expired_sessions(store, t) ==
    LET expired_sessions ==
            {s \in DOMAIN store : t - store[s].last_activity > SESSION_TIMEOUT}
    IN  [ret |-> expired_sessions,
         store |-> [s \in DOMAIN store \ expired_sessions |-> store[s]]]

\* AuthenticationManager.end_session: the result and the store.
auth_end_session(store, session_id) ==
    IF session_id \in DOMAIN store
    THEN [ret |-> TRUE, store |-> DictDel(store, session_id)]
    ELSE [ret |-> FALSE, store |-> store]

(***************************************************************************)
(* The AuthenticationManager alone, under any sequence of calls.           *)
(***************************************************************************)
\* The record of a call: what was called, when, on which store, with which result.
AuthCall(op, sid, ret, before) ==
    [op |-> op, sid |-> sid, ret |-> ret, at |-> now, before |-> before,
     prev |-> [op |-> call.op, at |-> call.at, ret |-> call.ret]]

InitAuth ==
    /\ now = 0
    /\ authenticated_sessions = EmptyDict
    /\ session_contexts = EmptyDict
    /\ conversations = EmptyDict
    /\ inflight = {}
    /\ ever_authenticated = {}
    /\ call = [op |-> "init", sid |-> None, ret |-> None, at |-> 0,
               before |-> EmptyDict, prev |-> [op |-> "init", at |-> 0, ret |-> None]]

Tick ==
    /\ \E d \in TickSteps :
          /\ now + d <= MaxNow
          /\ now' = now + d
    /\ call' = [call EXCEPT !.op = "tick"]
    /\ UNCHANGED <<authenticated_sessions, session_contexts, conversations, inflight,
                   ever_authenticated>>

AuthAuthenticate ==
    /\ \E s \in Sessions, a \in AccountNumbers :
          /\ authenticated_sessions' = authenticate_session(authenticated_sessions, s, a, now)
          /\ ever_authenticated' = ever_authenticated \cup {s}
          /\ call' = AuthCall("authenticate_session", s, None, authenticated_sessions)
    /\ UNCHANGED <<now, session_contexts, conversations, inflight>>

AuthIsAuthenticated ==
    /\ \E s \in Sessions :
          LET r == is_authenticated(authenticated_sessions, s, now)
          IN  /\ authenticated_sessions' = r.store
              /\ call' = AuthCall("is_authenticated", s, r.ret, authenticated_sessions)
    /\ UNCHANGED <<now, session_contexts, conversations, inflight, ever_authenticated>>

AuthUpdateActivity ==
    /\ \E s \in Sessions :
          /\ authenticated_sessions' = update_session_activity(authenticated_sessions, s, now)
          /\ call' = AuthCall("update_session_activity", s, None, authenticated_sessions)
    /\ UNCHANGED <<now, session_contexts, conversations, inflight, ever_authenticated>>

AuthCleanup ==
    /\ LET r == cleanup_expired_sessions(authenticated_sessions, now)
       IN  /\ authenticated_sessions' = r.store
           /\ call' = AuthCall("cleanup_expired_sessions", None, r.ret, authenticated_sessions)
    /\ UNCHANGED <<now, session_contexts, conversations, inflight, ever_authenticated>>

AuthEndSession ==
    /\ \E s \in Sessions :
          LET r == auth_end_session(authenticated_sessions, s)
          IN  /\ authenticated_sessions' = r.store
              /\ call' = AuthCall("end_session", s, r.ret, authenticated_sessions)
    /\ UNCHANGED <<now, session_contexts, conversations, inflight, ever_authenticated>>

NextAuth ==
    \/ Tick
    \/ AuthAuthenticate
    \/ AuthIsAuthenticated
    \/ AuthUpdateActivity
    \/ AuthCleanup
    \/ AuthEndSession

SpecAuth == InitAuth /\ [][NextAuth]_vars

(***************************************************************************)
(* Properties of the AuthenticationManager (checked under SpecAuth).       *)
(***************************************************************************)
\* The age of the record that session s had when the last call was made.
AgeAtCall(s) == call.at - call.before[s].last_activity

\* C8: is_authenticated(id) returns true if and only if a record exists for id and
\* now - lastActivity <= 900 s, and the call changes neither the set of records
\* nor any timestamp.
C8_IsAuthenticatedIsPureRead ==
    call.op = "is_authenticated" =>
        /\ call.ret = TRUE <=>
              (call.sid \in DOMAIN call.before /\ AgeAtCall(call.sid) <= 900)
        /\ authenticated_sessions = call.before

\* C8 witness: is_authenticated was called for a session whose record is older
\* than the timeout, and answered false.
C8_Witness ==
    /\ call.op = "is_authenticated"
    /\ call.sid \in DOMAIN call.before
    /\ AgeAtCall(call.sid) > 900
    /\ call.ret = FALSE

\* C9 (as stated): is_authenticated(id) is false for any session never
\* authenticated, and for an authenticated session it has become false when
\* exactly 900 s have passed since the last activity update.
C9_FalseAt900Seconds ==
    \A s \in Sessions :
        LET r == is_authenticated(authenticated_sessions, s, now).ret
        IN  /\ s \notin ever_authenticated => r = FALSE
            /\ s \in DOMAIN authenticated_sessions =>
                  (r = FALSE <=> now - authenticated_sessions[s].last_activity >= 900)

\* C9 (amended): is_authenticated(id) is false for any session never
\* authenticated, and for an authenticated session with no further activity it
\* is still true when exactly 900 s have passed since the last activity update
\* and false as soon as more than 900 s have passed.
C9_FalseAfterMoreThan900Seconds ==
    \A s \in Sessions :
        LET r == is_authenticated(authenticated_sessions, s, now).ret
        IN  /\ s \notin ever_authenticated => r = FALSE
            /\ s \in DOMAIN authenticated_sessions =>
                  (r = FALSE <=> now - authenticated_sessions[s].last_activity > 900)

\* C9 witness: a record whose last activity update is exactly 900 s ago.
C9_Witness ==
    \E s \in DOMAIN authenticated_sessions :
        /\ now - authenticated_sessions[s].last_activity = 900
        /\ s \in ever_authenticated

\* C10: cleanup_expired_sessions removes exactly the records whose age exceeds the
\* timeout, leaves the others as they were and returns exactly the ids it
\* removed; called again with no elapsed time it returns nothing and changes
\* nothing (on an empty store too).
C10_CleanupExactAndIdempotent ==
    call.op = "cleanup_expired_sessions" =>
        /\ DOMAIN authenticated_sessions \subseteq DOMAIN call.before
        /\ \A s \in DOMAIN call.before :
              s \notin DOMAIN authenticated_sessions <=> AgeAtCall(s) > SESSION_TIMEOUT
        /\ \A s \in DOMAIN authenticated_sessions :
              authenticated_sessions[s] = call.before[s]
        /\ call.ret = DOMAIN call.before \ DOMAIN authenticated_sessions
        /\ (call.prev.op = "cleanup_expired_sessions" /\ call.prev.at = call.at) =>
              (call.ret = {} /\ authenticated_sessions = call.before)

\* C10 witness: a sweep that follows, with no elapsed time, a sweep that removed
\* a record while another record stayed.
C10_Witness ==
    /\ call.op = "cleanup_expired_sessions"
    /\ call.prev.op = "cleanup_expired_sessions"
    /\ call.prev.at = call.at
    /\ call.prev.ret # {}
    /\ authenticated_sessions # EmptyDict


(***************************************************************************)
(* Strings.  A string of digits is known by its characters, so that len()  *)
(* and endswith() are computed; a message is the sequence of its words     *)
(* (the maximal runs of word characters, single spaces between them).      *)
(***************************************************************************)
Chars ==
    ("1311002345678" :> <<1,3,1,1,0,0,2,3,4,5,6,7,8>>) @@
    ("1308001234567" :> <<1,3,0,8,0,0,1,2,3,4,5,6,7>>) @@
    ("1311003456789" :> <<1,3,1,1,0,0,3,4,5,6,7,8,9>>) @@
    ("01712345678" :> <<0,1,7,1,2,3,4,5,6,7,8>>) @@
    ("5678" :> <<5,6,7,8>>) @@
    ("1234" :> <<1,2,3,4>>) @@
    ("9999999999999" :> <<9,9,9,9,9,9,9,9,9,9,9,9,9>>)

\* str.isdigit()
isdigit(s) == s \in DOMAIN Chars

\* len(s) of a string of digits
len(s) == Len(Chars[s])

\* s.endswith(suffix)
endswith(s, suffix) ==
    LET m == Len(Chars[s])
        n == Len(Chars[suffix])
    IN  n <= m /\ SubSeq(Chars[s], m - n + 1, m) = Chars[suffix]

\* str.lower() of a word
lower(w) == IF w = "Loan" THEN "loan" ELSE w

\* message.lower(), word by word
message_lower(message) == [i \in 1..Len(message) |-> lower(message[i])]

\* `phrase in text`: the words of the phrase occur next to each other.
contains_phrase(text, phrase) ==
    \E i \in 1..Len(text) :
        /\ i + Len(phrase) - 1 <= Len(text)
        /\ SubSeq(text, i, i + Len(phrase) - 1) = phrase

(***************************************************************************)
(* src/src/utils/text_extraction.py                                        *)
(***************************************************************************)
\* BankingChatbot.restricted_keywords
restricted_keywords ==
    { <<"credit", "card">>, <<"loan">>, <<"investment">>, <<"mortgage">>,
      <<"insurance">>, <<"wealth", "management">>, <<"stock">>, <<"trading">>,
      <<"mutual", "fund">>, <<"bond">> }

\* A matcher that compares the text as written, without re.IGNORECASE.
contains_restricted_keywords_case_sensitive(text, keywords) ==
    \E keyword \in keywords : contains_phrase(text, keyword)

\* re.search(r'\b<keyword>\b', text, re.IGNORECASE) for some keyword
contains_restricted_keywords(text, keywords) ==
    \E keyword \in keywords : contains_phrase(message_lower(text), keyword)

\* The positions of the words that are exactly four digits.
four_digit_words(message) ==
    {i \in 1..Len(message) : isdigit(message[i]) /\ len(message[i]) = 4}

\* The leftmost word of exactly four digits, or None.
first_four_digit_word(message) ==
    IF four_digit_words(message) = {} THEN None
    ELSE message[CHOOSE i \in four_digit_words(message) :
                    \A j \in four_digit_words(message) : i <= j]

\* r'\b(\d{4})\b' is the pattern tried first; the phrase patterns that follow
\* it capture the four digits after "ending in", "ends with", "last four
\* digits" and "account <word>", which is again a word of four digits here.
extract_last_4_digits(message) == first_four_digit_word(message)

\* The explicit patterns need the word "pin" next to the digits; a message of
\* four digits only is the PIN; else the first run of exactly four digits.
extract_pin(message) ==
    IF Len(message) = 1 /\ isdigit(message[1]) /\ len(message[1]) = 4
    THEN message[1]
    ELSE first_four_digit_word(message)

(***************************************************************************)
(* ConversationManager (src/src/chat/conversation_manager.py)              *)
(*                                                                         *)
(* The content of a turn is its text (the words of a user message, or the  *)
(* name of a fixed or generated text) together with the account number     *)
(* and the PIN that the text spells out, None when it spells out none.     *)
(***************************************************************************)
Content(text, acct, pin) == [text |-> text, acct |-> acct, pin |-> pin]

\* A text that mentions neither an account number nor a PIN.
Plain(name) == Content(<<name>>, None, None)

\* content: None
NoContent == Content(<<>>, None, None)

\* A turn without the keys "tool_calls" and "tool_call_id".
Turn(role, content) ==
    [role |-> role, content |-> content, tool_calls |-> <<>>, tool_call_id |-> None]

system_prompt == Plain("system_prompt")

_get_initial_prompt == <<Turn("system", system_prompt)>>

\* The list that the methods append to: the stored one, or the initial prompt.
conversation_of(convs, session_id) ==
    IF session_id \in DOMAIN convs THEN convs[session_id] ELSE _get_initial_prompt

\* get_conversation stores the initial prompt for a session without history.
get_conversation(convs, session_id) ==
    DictSet(convs, session_id, conversation_of(convs, session_id))

add_user_message(convs, session_id, message) ==
    DictSet(convs, session_id,
            Append(conversation_of(convs, session_id),
                   Turn("user", Content(message, None, None))))

\* A variant whose sessions share one turn list: the turn appended for one
\* session shows in the conversation of every session.
add_assistant_message_shared_list(convs, session_id, content) ==
    [s \in DOMAIN convs \cup {session_id} |->
        Append(conversation_of(convs, session_id), Turn("assistant", content))]

add_assistant_message(convs, session_id, content) ==
    DictSet(convs, session_id,
            Append(conversation_of(convs, session_id), Turn("assistant", content)))

add_system_message(convs, session_id, content) ==
    DictSet(convs, session_id,
            Append(conversation_of(convs, session_id), Turn("system", content)))

add_tool_call(convs, session_id, tool_call) ==
    DictSet(convs, session_id,
            Append(conversation_of(convs, session_id),
                   [role |-> "assistant", content |-> NoContent,
                    tool_calls |-> <<tool_call>>, tool_call_id |-> None]))

add_tool_response(convs, session_id, tool_call_id, content) ==
    DictSet(convs, session_id,
            Append(conversation_of(convs, session_id),
                   [role |-> "tool", content |-> content,
                    tool_calls |-> <<>>, tool_call_id |-> tool_call_id]))

end_conversation(convs, session_id) ==
    IF session_id \in DOMAIN convs
    THEN [ret |-> TRUE, convs |-> DictDel(convs, session_id)]
    ELSE [ret |-> FALSE, convs |-> convs]

clear_expired_conversations(convs, expired_sessions) ==
    [s \in DOMAIN convs \ expired_sessions |-> convs[s]]

(***************************************************************************)
(* SessionContextManager (src/src/chat/session_context_manager.py)         *)
(*                                                                         *)
(* The keys created_at, last_activity, channel and call_id of a context    *)
(* are written and never read by a decision of the program; they are left  *)
(* out of the record.                                                      *)
(***************************************************************************)
new_session_context(caller_id) ==
    [caller_id |-> caller_id,
     account_retrieved |-> FALSE,
     account_selected |-> FALSE,
     retrieved_accounts |-> <<>>,
     selected_account |-> None,
     awaiting_pin |-> FALSE]

initialize_session(ctxs, session_id, caller_id) ==
    DictSet(ctxs, session_id, new_session_context(caller_id))

\* get_session_context creates the context of a session that has none; the
\* result is the store after the call, the context is its entry for the id.
get_session_context(ctxs, session_id) ==
    IF session_id \in DOMAIN ctxs THEN ctxs
    ELSE initialize_session(ctxs, session_id, None)

\* updates is a record of the keys to overwrite.
update_session_context(ctxs, session_id, updates) ==
    LET c == get_session_context(ctxs, session_id)
    IN  [c EXCEPT ![session_id] =
            [k \in DOMAIN c[session_id] |->
                IF k \in DOMAIN updates THEN updates[k] ELSE c[session_id][k]]]

get_caller_id(ctxs, session_id) == get_session_context(ctxs, session_id)[session_id].caller_id

is_account_selected(ctxs, session_id) ==
    get_session_context(ctxs, session_id)[session_id].account_selected

is_awaiting_pin(ctxs, session_id) ==
    get_session_context(ctxs, session_id)[session_id].awaiting_pin

has_accounts(ctxs, session_id) ==
    get_session_context(ctxs, session_id)[session_id].account_retrieved

get_retrieved_accounts(ctxs, session_id) ==
    get_session_context(ctxs, session_id)[session_id].retrieved_accounts

get_selected_account(ctxs, session_id) ==
    LET account_number == get_session_context(ctxs, session_id)[session_id].selected_account
    IN  IF account_number # None /\ len(account_number) < 10 THEN None ELSE account_number

\* A variant that replaces the list and leaves the selection alone.
set_retrieved_accounts_keeping(ctxs, session_id, accounts) ==
    update_session_context(ctxs, session_id,
        [retrieved_accounts |-> accounts,
         account_retrieved |-> TRUE])

set_retrieved_accounts(ctxs, session_id, accounts) ==
    update_session_context(ctxs, session_id,
        [retrieved_accounts |-> accounts,
         account_retrieved |-> TRUE,
         account_selected |-> FALSE,
         selected_account |-> None,
         awaiting_pin |-> FALSE])

\* A setter that stores whatever it is given.
set_selected_account_unguarded(ctxs, session_id, account_number) ==
    [exc |-> None,
     ctxs |-> update_session_context(ctxs, session_id,
                  [selected_account |-> account_number,
                   account_selected |-> TRUE,
                   awaiting_pin |-> TRUE])]

\* A setter that reads the context of the session, and so creates it, before
\* it refuses a short number.
set_selected_account_late_guard(ctxs, session_id, account_number) ==
    IF len(account_number) < 10
    THEN [exc |-> "ValueError", ctxs |-> get_session_context(ctxs, session_id)]
    ELSE [exc |-> None,
          ctxs |-> update_session_context(ctxs, session_id,
                       [selected_account |-> account_number,
                        account_selected |-> TRUE,
                        awaiting_pin |-> TRUE])]

\* A setter that stores the number and leaves the flag account_selected as
\* it is.
set_selected_account_without_flag(ctxs, session_id, account_number) ==
    IF len(account_number) < 10
    THEN [exc |-> "ValueError", ctxs |-> ctxs]
    ELSE [exc |-> None,
          ctxs |-> update_session_context(ctxs, session_id,
                       [selected_account |-> account_number,
                        awaiting_pin |-> TRUE])]

\* exc is the exception raised (None when the call returns).
set_selected_account(ctxs, session_id, account_number) ==
    IF len(account_number) < 10
    THEN [exc |-> "ValueError", ctxs |-> ctxs]
    ELSE [exc |-> None,
          ctxs |-> update_session_context(ctxs, session_id,
                       [selected_account |-> account_number,
                        account_selected |-> TRUE,
                        awaiting_pin |-> TRUE])]

\* A sweep that forgets to drop the contexts.
clear_expired_sessions_noop(ctxs, expired_session_ids) == ctxs

clear_expired_sessions(ctxs, expired_session_ids) ==
    [s \in DOMAIN ctxs \ expired_session_ids |-> ctxs[s]]

context_end_session(ctxs, session_id) ==
    IF session_id \in DOMAIN ctxs
    THEN [ret |-> TRUE, ctxs |-> DictDel(ctxs, session_id)]
    ELSE [ret |-> FALSE, ctxs |-> ctxs]

(***************************************************************************)
(* The banking API (src/src/api/mock_client.py for the answers of a        *)
(* healthy backend, src/src/api/real_client.py for the failures).          *)
(*                                                                         *)
(* fault names, for each endpoint, what the backend does during a step:    *)
(* "ok" answers as the directory says, "error" is the error response that  *)
(* the client builds when the request fails, "malformed" is a JSON answer  *)
(* without the keys "status" and "response".                               *)
(***************************************************************************)
sample_accounts ==
    << [account_number |-> "1311002345678", masked_account |-> "131100***5678",
        pin |-> "1234", mobile |-> "01712345678"],
       [account_number |-> "1308001234567", masked_account |-> "130800***4567",
        pin |-> "5678", mobile |-> "01712345678"],
       [account_number |-> "1311003456789", masked_account |-> "131100***6789",
        pin |-> "9012", mobile |-> "01712345678"] >>

\* The string with the given characters.
Str(c) == CHOOSE s \in DOMAIN Chars : Chars[s] = c

normalize_mobile_number(mobile_number) ==
    LET c  == Chars[mobile_number]
        c1 == IF Len(c) >= 3 /\ SubSeq(c, 1, 3) = <<8, 8, 0>>
              THEN SubSeq(c, 4, Len(c)) ELSE c
        c2 == IF Len(c1) = 10 /\ c1[1] # 0 THEN <<0>> \o c1 ELSE c1
    IN  Str(c2)

\* The first of the positions of a list whose elements satisfy a test (the
\* element at which a for loop breaks), 0 when there is none.
first_index(hits) ==
    IF hits = {} THEN 0 ELSE CHOOSE i \in hits : \A j \in hits : i <= j

\* The accounts of the directory that belong to a mobile number.
mobile_to_accounts(mobile_number) ==
    SelectSeq(sample_accounts, LAMBDA a : a.mobile = mobile_number)

\* The position in the directory of the account with this number, 0 when
\* there is none.
account_lookup(account_number) ==
    first_index({k \in 1..Len(sample_accounts) :
        sample_accounts[k].account_number = account_number})

\* The account number a short (<= 4 characters) number stands for at the
\* backend: the first account of the mobile number that ends with it.
api_resolve(account_number, mobile_number) ==
    IF len(account_number) <= 4
    THEN LET i == first_index({k \in 1..Len(sample_accounts) :
                      endswith(sample_accounts[k].account_number, account_number)
                      /\ sample_accounts[k].mobile = mobile_number})
         IN  IF i = 0 THEN None ELSE sample_accounts[i].account_number
    ELSE account_number

\* keys: the answer has the keys the services read.
api_get_accounts_by_mobile(mobile_number, fault) ==
    LET accounts == mobile_to_accounts(normalize_mobile_number(mobile_number))
    IN  IF fault.get_accounts_by_mobile = "malformed"
        THEN [keys |-> FALSE, gstatus |-> FALSE, responseData |-> <<>>]
        ELSE IF fault.get_accounts_by_mobile = "error" \/ accounts = <<>>
        THEN [keys |-> TRUE, gstatus |-> FALSE, responseData |-> <<>>]
        ELSE [keys |-> TRUE, gstatus |-> TRUE,
              responseData |-> [i \in 1..Len(accounts) |->
                                  [key |-> accounts[i].account_number,
                                   value |-> accounts[i].masked_account]]]

\* account: the account whose PIN the backend compared, None when it found none.
api_verify_pin(account_number, pin, mobile_number, fault) ==
    LET mobile  == IF mobile_number = None THEN "unknown" ELSE mobile_number
        full    == api_resolve(account_number, mobile)
        i       == IF full = None THEN 0 ELSE account_lookup(full)
    IN  IF fault.verify_pin = "malformed"
        THEN [keys |-> FALSE, gstatus |-> FALSE, Status |-> None, account |-> None]
        ELSE IF fault.verify_pin = "error" \/ i = 0
        THEN [keys |-> TRUE, gstatus |-> FALSE, Status |-> "Failed", account |-> None]
        ELSE IF sample_accounts[i].pin = pin
        THEN [keys |-> TRUE, gstatus |-> TRUE, Status |-> "Successfull",
              account |-> sample_accounts[i].account_number]
        ELSE [keys |-> TRUE, gstatus |-> FALSE, Status |-> "Failed",
              account |-> sample_accounts[i].account_number]

\* accNo: the account whose details are in responseData, None when it is empty.
api_get_account_details(account_number, mobile_number, fault) ==
    LET mobile  == IF mobile_number = None THEN "unknown" ELSE mobile_number
        short   == api_resolve(account_number, mobile)
        full    == IF short = None THEN account_number ELSE short
        i       == account_lookup(full)
    IN  IF fault.get_account_details = "malformed"
        THEN [keys |-> FALSE, gstatus |-> FALSE, accNo |-> None]
        ELSE IF fault.get_account_details = "error" \/ i = 0
        THEN [keys |-> TRUE, gstatus |-> FALSE, accNo |-> None]
        ELSE [keys |-> TRUE, gstatus |-> TRUE, accNo |-> sample_accounts[i].account_number]

(***************************************************************************)
(* The services behind the tools.  A result carries the exception raised   *)
(* (None when the call returns), the keys of the returned dict that the    *)
(* chatbot reads, the text json.dumps makes of it, and the requests the    *)
(* call sent to the banking API.                                           *)
(***************************************************************************)
Result(exc, valid, status, accounts, json, calls) ==
    [exc |-> exc, valid |-> valid, status |-> status, accounts |-> accounts,
     json |-> json, calls |-> calls]

\* A call that ends by raising.
Raised(exc, calls) == Result(exc, FALSE, None, <<>>, Content(<<exc>>, None, None), calls)

\* A request to the banking API: the endpoint, the account it was answered
\* for, the PIN sent and whether the answer was positive.
Request(api, account, pin, ok) == [api |-> api, account |-> account, pin |-> pin, ok |-> ok]

\* args.get(key)
arg(args, key) == IF key \in DOMAIN args THEN args[key] ELSE None

\* The result MobileAuthService.get_accounts_by_mobile makes of the answer of
\* the API.
get_accounts_by_mobile_result(response) ==
    LET calls == <<Request("get_accounts_by_mobile", None, None, response.gstatus)>>
    IN  IF ~response.keys THEN Raised("Exception", calls)
        ELSE IF response.gstatus
        THEN Result(None, FALSE, "success",
                    [i \in 1..Len(response.responseData) |->
                        [account_number |-> response.responseData[i].key,
                         masked_account |-> response.responseData[i].value]],
                    Content(<<"status: success", "accounts">>,
                            response.responseData[1].key, None),
                    calls)
        ELSE Result(None, FALSE, "error", <<>>,
                    Plain("status: error"), calls)

\* src/src/services/mobile_auth/mobile_auth_service.py
mobile_get_accounts_by_mobile(mobile_number, fault) ==
    get_accounts_by_mobile_result(api_get_accounts_by_mobile(mobile_number, fault))

\* MobileAuthService.execute_tool
mobile_auth_execute_tool(tool_name, args, fault) ==
    IF tool_name = "get_accounts_by_mobile"
    THEN IF "mobile_number" \notin DOMAIN args THEN Raised("KeyError", <<>>)
         ELSE mobile_get_accounts_by_mobile(args.mobile_number, fault)
    ELSE Raised("ValueError", <<>>)

\* The result validate_pin makes of the answer of the API to verify_pin;
\* calls are the requests sent before it.
verify_pin_result(response, pin, calls) ==
    LET is_valid == response.gstatus /\ response.Status = "Successfull"
        all_calls == calls \o <<Request("verify_pin", response.account, pin, is_valid)>>
    IN  IF ~response.keys THEN Raised("Exception", all_calls)
        ELSE Result(None, is_valid, None, <<>>,
                    Plain(IF is_valid THEN "PIN validated" ELSE "Invalid PIN"), all_calls)

\* AuthenticationService.validate_pin
auth_service_validate_pin(account_number, pin, mobile_number, fault) ==
    verify_pin_result(api_verify_pin(account_number, pin, mobile_number, fault), pin, <<>>)

\* What the short-number lookup makes of the accounts of the mobile number.
lookup_result(response, account_number) ==
    LET calls == <<Request("get_accounts_by_mobile", None, None, response.gstatus)>>
        i     == first_index({k \in 1..Len(response.responseData) :
                     endswith(response.responseData[k].key, account_number)})
    IN  IF ~response.keys
        THEN [found |-> "skip", account_number |-> account_number, calls |-> calls]
        ELSE IF ~response.gstatus \/ response.responseData = <<>>
        THEN [found |-> "none", account_number |-> account_number, calls |-> calls]
        ELSE IF i = 0
        THEN [found |-> "miss", account_number |-> account_number, calls |-> calls]
        ELSE [found |-> "hit", account_number |-> response.responseData[i].key,
              calls |-> calls]

\* The short-number lookup that opens validate_account and validate_pin of
\* auth_utils.py: found is "skip" when the lookup is not made or raised (the
\* exception is logged), "none" when the mobile number has no accounts, "miss"
\* when none of them ends with the digits, else "hit" with the full number.
auth_utils_lookup(account_number, mobile_number, fault) ==
    IF mobile_number # None /\ len(account_number) <= 4
    THEN lookup_result(api_get_accounts_by_mobile(mobile_number, fault), account_number)
    ELSE [found |-> "skip", account_number |-> account_number, calls |-> <<>>]

\* The result validate_account makes of the answer of the API to
\* get_account_details; a valid result carries the account's details.  calls
\* are the requests sent before it.
account_details_result(response, calls) ==
    LET all_calls == calls \o
                     <<Request("get_account_details", response.accNo, None, response.gstatus)>>
    IN  IF ~response.keys THEN Raised("Exception", all_calls)
        ELSE IF response.gstatus
        THEN Result(None, TRUE, None, <<>>,
                    Content(<<"valid: responseData", "Account found">>, response.accNo, None),
                    all_calls)
        ELSE Result(None, FALSE, None, <<>>, Plain("Account not found"), all_calls)

\* auth_utils.validate_account after its lookup.
validate_account_after_lookup(lookup, account_number, mobile_number, fault) ==
    IF lookup.found = "miss"
    THEN Result(None, FALSE, None, <<>>,
                Content(<<"No account ending with", "found for this mobile number">>,
                        account_number, None),
                lookup.calls)
    ELSE IF lookup.found = "none"
    THEN Result(None, FALSE, None, <<>>,
                Plain("No accounts found for this mobile number"), lookup.calls)
    ELSE account_details_result(
             api_get_account_details(lookup.account_number, mobile_number, fault),
             lookup.calls)

\* auth_utils.validate_account
auth_utils_validate_account(account_number, mobile_number, fault) ==
    validate_account_after_lookup(auth_utils_lookup(account_number, mobile_number, fault),
                                  account_number, mobile_number, fault)

\* auth_utils.validate_pin after its lookup.
validate_pin_after_lookup(lookup, account_number, pin, mobile_number, fault) ==
    IF lookup.found = "miss"
    THEN Result(None, FALSE, None, <<>>,
                Content(<<"No account ending with", "found for this mobile number">>,
                        account_number, None),
                lookup.calls)
    ELSE IF lookup.found = "none"
    THEN Result(None, FALSE, None, <<>>,
                Plain("No accounts found for this mobile number"), lookup.calls)
    ELSE verify_pin_result(api_verify_pin(lookup.account_number, pin, mobile_number, fault),
                           pin, lookup.calls)

\* auth_utils.validate_pin
auth_utils_validate_pin(account_number, pin, mobile_number, fault) ==
    validate_pin_after_lookup(auth_utils_lookup(account_number, mobile_number, fault),
                              account_number, pin, mobile_number, fault)

\* AccountService.get_account_details after the validation of the PIN, with
\* the answer of the API to get_account_details.
get_account_details_after_pin(pin_validation, response) ==
    LET calls == pin_validation.calls \o
                 <<Request("get_account_details", response.accNo, None, response.gstatus)>>
    IN  IF pin_validation.exc # None THEN pin_validation
        ELSE IF ~pin_validation.valid
        THEN Result(None, FALSE, "error", <<>>, Plain("Invalid credentials"),
                    pin_validation.calls)
        ELSE IF ~response.keys THEN Raised("Exception", calls)
        ELSE IF ~response.gstatus
        THEN Result(None, FALSE, "error", <<>>, Plain("Account not found"), calls)
        ELSE Result(None, FALSE, "success", <<>>, Plain("status: success, data"), calls)

\* AccountService.get_account_details: the PIN is validated for the number
\* as auth_utils resolves it, the details are fetched for the number as given.
account_get_account_details(account_number, pin, mobile_number, fault) ==
    get_account_details_after_pin(
        auth_utils_validate_pin(account_number, pin, mobile_number, fault),
        api_get_account_details(account_number, mobile_number, fault))

\* The result AccountService.get_account_field makes of the answer of the API.
get_account_field_result(response, field_name) ==
    LET calls == <<Request("get_account_details", response.accNo, None, response.gstatus)>>
    IN  IF ~response.keys THEN Raised("Exception", calls)
        ELSE IF ~response.gstatus
        THEN Result(None, FALSE, "error", <<>>, Plain("Account not found"), calls)
        ELSE Result(None, FALSE, "success", <<>>, Plain(field_name), calls)

\* AccountService.get_account_field
account_get_account_field(account_number, field_name, fault) ==
    get_account_field_result(api_get_account_details(account_number, None, fault), field_name)

\* AccountService.get_currency_details: a table in the service, no backend call.
account_get_currency_details(currency_code) ==
    Result(None, FALSE, "success", <<>>, Plain("status: success, currency"), <<>>)

\* AccountService.get_account_type_details: a table in the service, no backend
\* call.
account_get_account_type_details(account_type) ==
    Result(None, FALSE, "success", <<>>, Plain("status: success, account type"), <<>>)

\* AccountService.execute_tool
account_execute_tool(tool_name, args, fault) ==
    IF tool_name = "validate_account"
    THEN IF "account_number" \notin DOMAIN args THEN Raised("KeyError", <<>>)
         ELSE auth_utils_validate_account(args.account_number, arg(args, "mobile_number"),
                                          fault)
    ELSE IF tool_name = "validate_pin"
    THEN IF {"account_number", "pin"} \subseteq DOMAIN args
         THEN auth_utils_validate_pin(args.account_number, args.pin,
                                      arg(args, "mobile_number"), fault)
         ELSE Raised("KeyError", <<>>)
    ELSE IF tool_name = "get_account_details"
    THEN IF {"account_number", "pin"} \subseteq DOMAIN args
         THEN account_get_account_details(args.account_number, args.pin,
                                          arg(args, "mobile_number"), fault)
         ELSE Raised("KeyError", <<>>)
    ELSE IF tool_name = "get_account_field"
    THEN IF {"account_number", "field_name"} \subseteq DOMAIN args
         THEN account_get_account_field(args.account_number, args.field_name, fault)
         ELSE Raised("KeyError", <<>>)
    ELSE IF tool_name = "get_currency_details"
    THEN IF "currency_code" \in DOMAIN args
         THEN account_get_currency_details(args.currency_code)
         ELSE Raised("KeyError", <<>>)
    ELSE IF tool_name = "get_account_type_details"
    THEN IF "account_type" \in DOMAIN args
         THEN account_get_account_type_details(args.account_type)
         ELSE Raised("KeyError", <<>>)
    ELSE Raised("ValueError", <<>>)

\* AuthenticationService.validate_account
auth_service_validate_account(account_number, mobile_number, fault) ==
    account_details_result(api_get_account_details(account_number, mobile_number, fault), <<>>)

\* AuthenticationService.execute_tool
auth_execute_tool(tool_name, args, fault) ==
    IF tool_name = "validate_account"
    THEN IF "account_number" \notin DOMAIN args THEN Raised("KeyError", <<>>)
         ELSE auth_service_validate_account(args.account_number,
                                            arg(args, "mobile_number"), fault)
    ELSE IF tool_name = "validate_pin"
    THEN IF {"account_number", "pin"} \subseteq DOMAIN args
         THEN auth_service_validate_pin(args.account_number, args.pin,
                                        arg(args, "mobile_number"), fault)
         ELSE Raised("KeyError", <<>>)
    ELSE Raised("ValueError", <<>>)

\* The tools each service lists (src/src/services/common/tool_definitions.py
\* and AuthenticationService.supported_tools).
ACCOUNT_TOOLS ==
    {"get_account_details", "get_account_field", "get_currency_details",
     "get_account_type_details"}

AUTH_TOOLS == {"validate_account", "validate_pin"}

MOBILE_AUTH_TOOLS == {"get_accounts_by_mobile"}

\* ServiceRegistry.execute_tool: the first registered service that lists the
\* tool runs it; a tool that no service lists raises ValueError.
registry_execute_tool(tool_name, args, fault) ==
    IF tool_name \in ACCOUNT_TOOLS THEN account_execute_tool(tool_name, args, fault)
    ELSE IF tool_name \in AUTH_TOOLS THEN auth_execute_tool(tool_name, args, fault)
    ELSE IF tool_name \in MOBILE_AUTH_TOOLS
    THEN mobile_auth_execute_tool(tool_name, args, fault)
    ELSE Raised("ValueError", <<>>)

(***************************************************************************)
(* BankingChatbot (src/src/chat/banking_chatbot.py)                        *)
(*                                                                         *)
(* m is the state of the three managers during a handler together with     *)
(* the log of what the handler asked of the backend, of the LLM and of     *)
(* authenticate_session.  A method returns the state it leaves, its        *)
(* response (has: it returned one, not None) and the exception it raised.  *)
(***************************************************************************)
Machine(ctxs, convs, auth, log) == [ctxs |-> ctxs, convs |-> convs, auth |-> auth, log |-> log]

Logged(m, calls) == [m EXCEPT !.log = m.log \o calls]

Returned(m, response) == [m |-> m, has |-> TRUE, response |-> response]

ReturnedNone(m) == [m |-> m, has |-> FALSE, response |-> NoContent]

\* self.conversation_manager.add_assistant_message(...); return {"response": ...}
Reply(m, session_id, response) ==
    Returned([m EXCEPT !.convs = add_assistant_message(m.convs, session_id, response)],
             response)

\* self.auth_manager.authenticate_session(session_id, account_number)
Authenticate(m, session_id, account_number, t) ==
    [m EXCEPT !.auth = authenticate_session(m.auth, session_id, account_number, t),
              !.log = m.log \o <<Request("authenticate_session", account_number, None, TRUE)>>]

\* The field a message of an authenticated user asks for, None for no field.
field_name_of(message) ==
    LET message_l == message_lower(message)
    IN  IF contains_phrase(message_l, <<"balance">>) \/ contains_phrase(message_l, <<"how", "much">>)
        THEN "balance"
        ELSE IF contains_phrase(message_l, <<"last", "transaction">>) THEN "last_transaction"
        ELSE IF contains_phrase(message_l, <<"status">>) THEN "account_status"
        ELSE IF contains_phrase(message_l, <<"currency">>) THEN "currency"
        ELSE IF contains_phrase(message_l, <<"account", "type">>)
                \/ contains_phrase(message_l, <<"type", "of", "account">>)
        THEN "account_type"
        ELSE None

\* The answer of the account_query flow to the result of its step; an
\* exception of the step ends the flow without a result.
field_query_response(m, field_name, result) ==
    IF result.exc = None /\ result.status = "success"
    THEN Returned(Logged(m, result.calls), Content(<<"Your", field_name, "is">>, None, None))
    ELSE ReturnedNone(Logged(m, result.calls))

\* The account_query flow for a field: it runs get_account_field through the
\* registry.
query_field(m, account_number, field_name, fault) ==
    IF field_name = None THEN ReturnedNone(m)
    ELSE field_query_response(m, field_name,
             registry_execute_tool("get_account_field",
                 [account_number |-> account_number, field_name |-> field_name], fault))

_handle_field_query(m, session_id, account_number, message, fault) ==
    query_field(m, account_number, field_name_of(message), fault)

\* The retrieved accounts have the keys account_number and masked_account.
_simple_pin_check(ctxs, session_id, account_number, pin) ==
    LET accounts == get_retrieved_accounts(ctxs, session_id)
        i == first_index({k \in 1..Len(accounts) : accounts[k].account_number = account_number})
    IN  IF i = 0 THEN [has |-> FALSE, response |-> NoContent]
        ELSE IF arg(accounts[i], "pin") = pin
        THEN [has |-> TRUE,
              response |-> Content(<<"DEBUG: PIN should be valid! Expected:", "got:">>, None, pin)]
        ELSE [has |-> TRUE,
              response |-> Content(<<"DEBUG: PIN incorrect. Expected:", "got:">>, None, pin)]

\* The tool call turn that _handle_pin_validation writes.
pin_tool_call(id, name, account_number, caller_id) ==
    [id |-> id, name |-> name,
     arguments |-> [account_number |-> account_number, pin |-> "****",
                    mobile_number |-> caller_id]]

\* The tool call and the tool response that _handle_pin_validation writes for
\* a call it made itself.
with_tool_turns(m, session_id, id, name, args, content) ==
    [m EXCEPT !.convs =
        add_tool_response(
            add_tool_call(m.convs, session_id,
                pin_tool_call(id, name, args.account_number, args.mobile_number)),
            session_id, id, content)]

\* _handle_pin_validation after get_account_details has answered.
pin_validation_details(m, session_id, args, details_result) ==
    IF details_result.exc # None THEN ReturnedNone(Logged(m, details_result.calls))
    ELSE IF details_result.status = "success"
    THEN Reply(with_tool_turns(Logged(m, details_result.calls), session_id,
                   "get_account_details_call", "get_account_details", args,
                   details_result.json),
               session_id, Plain("Here are your account details"))
    ELSE ReturnedNone(with_tool_turns(Logged(m, details_result.calls), session_id,
                          "get_account_details_call", "get_account_details", args,
                          details_result.json))

\* A variant that drops the selection after a wrong PIN.
pin_validation_response_clearing(m, session_id, args, pin_result, fault, t) ==
    IF pin_result.exc # None THEN ReturnedNone(Logged(m, pin_result.calls))
    ELSE IF ~pin_result.valid
    THEN Reply([with_tool_turns(Logged(m, pin_result.calls), session_id,
                    "pin_validation_call", "validate_pin", args, Plain("Invalid PIN")) EXCEPT
                  !.ctxs = update_session_context(m.ctxs, session_id,
                               [account_selected |-> FALSE, selected_account |-> None,
                                awaiting_pin |-> FALSE])],
               session_id, Plain("Sorry, the PIN you provided is incorrect"))
    ELSE pin_validation_details(
             Authenticate(with_tool_turns(Logged(m, pin_result.calls), session_id,
                              "pin_validation_call", "validate_pin", args,
                              Plain("PIN validated")),
                          session_id, args.account_number, t),
             session_id, args,
             account_execute_tool("get_account_details", args, fault))

\* _handle_pin_validation after validate_pin has answered.
pin_validation_response(m, session_id, args, pin_result, fault, t) ==
    IF pin_result.exc # None THEN ReturnedNone(Logged(m, pin_result.calls))
    ELSE IF ~pin_result.valid
    THEN Reply(with_tool_turns(Logged(m, pin_result.calls), session_id,
                   "pin_validation_call", "validate_pin", args, Plain("Invalid PIN")),
               session_id, Plain("Sorry, the PIN you provided is incorrect"))
    ELSE pin_validation_details(
             Authenticate(with_tool_turns(Logged(m, pin_result.calls), session_id,
                              "pin_validation_call", "validate_pin", args,
                              Plain("PIN validated")),
                          session_id, args.account_number, t),
             session_id, args,
             account_execute_tool("get_account_details", args, fault))

_handle_pin_validation(m, session_id, account_number, pin, fault, t) ==
    LET args == [account_number |-> account_number, pin |-> pin,
                 mobile_number |-> get_caller_id(m.ctxs, session_id)]
    IN  IF len(account_number) < 10
        THEN Returned(
                 [m EXCEPT !.convs = add_assistant_message(m.convs, session_id,
                                         Plain("issue with your account identification")),
                           !.ctxs = update_session_context(m.ctxs, session_id,
                                         [account_selected |-> FALSE,
                                          selected_account |-> None,
                                          awaiting_pin |-> FALSE])],
                 Plain("issue with your account identification"))
        ELSE pin_validation_response(m, session_id, args,
                 auth_execute_tool("validate_pin", args, fault), fault, t)

\* STEP 5: the matching account is stored as the selected account.
confirm_selected_account(m, session_id, account, selected) ==
    IF selected.exc # None
    THEN Reply(m, session_id, Plain("Sorry, I'm having trouble retrieving your account"))
    ELSE Reply([m EXCEPT
                  !.ctxs = selected.ctxs,
                  !.convs = add_system_message(m.convs, session_id,
                                Content(<<"User confirmed account",
                                          "Now ask for 4-digit PIN to authenticate.">>,
                                        account.masked_account, None))],
               session_id,
               Content(<<"Thank you for confirming your account",
                         "please provide your 4-digit PIN">>,
                       account.masked_account, None))

\* A variant whose "not found" reply lists the account the caller does have.
select_matching_account_revealing(m, session_id, last_4_digits, accounts, i) ==
    IF i = 0
    THEN Reply(m, session_id,
               Content(<<"I couldn't find an account ending with", "your account is">>,
                       accounts[1].masked_account, None))
    ELSE confirm_selected_account(m, session_id, accounts[i],
             set_selected_account(m.ctxs, session_id, accounts[i].account_number))

\* STEP 4: the i-th account is the first that ends with the digits (0: none).
select_matching_account(m, session_id, last_4_digits, accounts, i) ==
    IF i = 0
    THEN Reply(m, session_id,
               Content(<<"I couldn't find an account ending with">>, last_4_digits, None))
    ELSE confirm_selected_account(m, session_id, accounts[i],
             set_selected_account(m.ctxs, session_id, accounts[i].account_number))

\* STEP 3: the accounts of the result are stored as the retrieved accounts.
store_retrieved_accounts(m, session_id, last_4_digits, accounts) ==
    select_matching_account(
        [m EXCEPT !.ctxs = set_retrieved_accounts(m.ctxs, session_id, accounts)],
        session_id, last_4_digits, accounts,
        first_index({k \in 1..Len(accounts) :
            endswith(accounts[k].account_number, last_4_digits)}))

\* STEP 2: what get_accounts_by_mobile answered.
account_selection_response(m, session_id, last_4_digits, result) ==
    IF result.exc # None
    THEN Reply(Logged(m, result.calls), session_id,
               Plain("Sorry, I'm having trouble retrieving your account"))
    ELSE IF result.status # "success" \/ result.accounts = <<>>
    THEN Reply(Logged(m, result.calls), session_id, Plain("I couldn't find any accounts"))
    ELSE store_retrieved_accounts(Logged(m, result.calls), session_id, last_4_digits,
                                  result.accounts)

\* STEP 1 to 5 of _process_authentication_state: the digits of the message are
\* matched against the accounts of the caller's mobile number.  Whatever is
\* raised inside is answered with the "trouble retrieving" reply.
_select_account_by_digits(m, session_id, last_4_digits, fault) ==
    IF get_caller_id(m.ctxs, session_id) = None
    THEN Reply(m, session_id, Plain("I need your mobile number to proceed"))
    ELSE account_selection_response(m, session_id, last_4_digits,
             mobile_auth_execute_tool("get_accounts_by_mobile",
                 [mobile_number |-> get_caller_id(m.ctxs, session_id)], fault))

\* The PIN that the awaiting-PIN branch takes from a message: a message of four
\* digits is the PIN, else what extract_pin finds (None when it finds none).
pin_of_message(message) ==
    IF Len(message) = 1 /\ isdigit(message[1]) /\ len(message[1]) = 4
    THEN message[1] ELSE extract_pin(message)

\* The PIN of the message when the session has selected an account, is
\* awaiting the PIN and is not authenticated; None otherwise.
awaited_pin(m, session_id, message, t) ==
    IF /\ is_account_selected(m.ctxs, session_id)
       /\ is_awaiting_pin(m.ctxs, session_id)
       /\ ~is_authenticated(m.auth, session_id, t).ret
    THEN pin_of_message(message)
    ELSE None

\* The reply of the awaiting-PIN branch when _handle_pin_validation returned
\* no response.
pin_check_response(m, session_id, pin_check) ==
    IF pin_check.has THEN Reply(m, session_id, pin_check.response)
    ELSE Reply(m, session_id, Plain("The PIN you entered is incorrect"))

\* The awaiting-PIN branch after _handle_pin_validation.
awaited_pin_response(session_id, account_number, pin, pin_response) ==
    IF pin_response.has THEN pin_response
    ELSE pin_check_response(pin_response.m, session_id,
             _simple_pin_check(pin_response.m.ctxs, session_id, account_number, pin))

\* The awaiting-PIN branch with the PIN of the message and the selected
\* account.
validate_awaited_pin(m, session_id, pin, account_number, fault, t) ==
    IF pin = None
    THEN Reply(m, session_id, Plain("I need your 4-digit PIN"))
    ELSE IF account_number = None
    THEN Reply(m, session_id, Plain("There was an error with your session"))
    ELSE awaited_pin_response(session_id, account_number, pin,
             _handle_pin_validation(m, session_id, account_number, pin, fault, t))

\* The branch of _process_authentication_state for a session that has selected
\* an account, is awaiting the PIN and is not authenticated.
_process_awaited_pin(m, session_id, message, fault, t) ==
    validate_awaited_pin(m, session_id, pin_of_message(message),
                         get_selected_account(m.ctxs, session_id), fault, t)

\* _process_authentication_state with what is_authenticated answered and the
\* digits extract_last_4_digits found.
authentication_state_response(m, session_id, message, authenticated, last_4_digits, fault, t) ==
    IF is_account_selected(m.ctxs, session_id) /\ is_awaiting_pin(m.ctxs, session_id)
    THEN IF ~authenticated.ret
         THEN _process_awaited_pin([m EXCEPT !.auth = authenticated.store],
                                   session_id, message, fault, t)
         ELSE IF last_4_digits # None
         THEN _select_account_by_digits([m EXCEPT !.auth = authenticated.store],
                                        session_id, last_4_digits, fault)
         ELSE ReturnedNone([m EXCEPT !.auth = authenticated.store])
    ELSE IF last_4_digits # None
    THEN _select_account_by_digits(m, session_id, last_4_digits, fault)
    ELSE ReturnedNone(m)

_process_authentication_state(m, session_id, message, fault, t) ==
    authentication_state_response(m, session_id, message,
                                  is_authenticated(m.auth, session_id, t),
                                  extract_last_4_digits(message), fault, t)

(***************************************************************************)
(* Tool calls.  A tool call of the LLM is its id, the name of the function *)
(* and the arguments: the dict that json.loads makes of them, or a text    *)
(* that json.loads rejects.                                                *)
(***************************************************************************)
ToolCall(id, name, arguments) == [id |-> id, name |-> name, arguments |-> arguments]

\* Arguments that are not JSON.
Malformed == [malformed_json |-> "{"]

\* json.loads raises json.JSONDecodeError, a ValueError.
json_loads_raises(arguments) == "malformed_json" \in DOMAIN arguments

\* if caller_id: args["mobile_number"] = caller_id
with_mobile_number(args, caller_id) ==
    IF caller_id # None THEN DictSet(args, "mobile_number", caller_id) ELSE args

\* The full account number of the retrieved accounts that a short number
\* stands for, None when there is none.
account_in_session(ctxs, session_id, short_account_number) ==
    LET accounts == get_retrieved_accounts(ctxs, session_id)
        i == first_index({k \in 1..Len(accounts) :
                 endswith(accounts[k].account_number, short_account_number)})
    IN  IF has_accounts(ctxs, session_id) /\ i # 0 THEN accounts[i].account_number ELSE None

\* The selected account is stored; a ValueError of set_selected_account is
\* answered with a system message.
store_selected_account(m, session_id, selected) ==
    IF selected.exc = None
    THEN [m EXCEPT !.ctxs = selected.ctxs]
    ELSE [m EXCEPT !.convs = add_system_message(m.convs, session_id,
                                 Plain("There was an error with the account number validation"))]

\* The account number that the accounts of the mobile number give for a short
\* number: the short number itself when they give none.
looked_up_account(short_account_number, accounts_result) ==
    LET i == first_index({k \in 1..Len(accounts_result.accounts) :
                 endswith(accounts_result.accounts[k].account_number, short_account_number)})
    IN  IF accounts_result.exc = None /\ accounts_result.status = "success" /\ i # 0
        THEN accounts_result.accounts[i].account_number
        ELSE short_account_number

\* The short number is looked up among the accounts of the mobile number.
select_looked_up_account(m, session_id, short_account_number, accounts_result) ==
    store_selected_account(Logged(m, accounts_result.calls), session_id,
        set_selected_account(m.ctxs, session_id,
            looked_up_account(short_account_number, accounts_result)))

\* The branch of _process_tool_result for a valid validate_account, with the
\* account of the session that the short number stands for and the caller.
select_validated_account(m, session_id, short_account_number, in_session, mobile_number, fault) ==
    IF len(short_account_number) <= 4 /\ in_session = None /\ mobile_number # None
    THEN select_looked_up_account(m, session_id, short_account_number,
             mobile_auth_execute_tool("get_accounts_by_mobile",
                 [mobile_number |-> mobile_number], fault))
    ELSE store_selected_account(m, session_id,
             set_selected_account(m.ctxs, session_id,
                 IF len(short_account_number) <= 4 /\ in_session # None
                 THEN in_session ELSE short_account_number))

\* The branch of _process_tool_result for a valid validate_account.
_process_valid_account(m, session_id, function_args, fault) ==
    select_validated_account(m, session_id, function_args.account_number,
        account_in_session(m.ctxs, session_id, function_args.account_number),
        get_caller_id(m.ctxs, session_id), fault)

\* The branch of _process_tool_result for a valid validate_pin.
_process_valid_pin(m, session_id, function_args, t) ==
    LET account_number == function_args.account_number
        selected_account == get_selected_account(m.ctxs, session_id)
        in_session == account_in_session(m.ctxs, session_id, account_number)
        full_account_number ==
            IF selected_account # None /\ len(selected_account) > 4 THEN selected_account
            ELSE in_session
    IN  IF len(account_number) <= 4 /\ full_account_number # None
        THEN Authenticate(m, session_id, full_account_number, t)
        ELSE Authenticate(m, session_id, account_number, t)

_process_tool_result(m, session_id, function_name, function_args, result, tool_call_id, fault, t) ==
    LET answered == [m EXCEPT !.convs = add_tool_response(m.convs, session_id,
                                            tool_call_id, result.json)]
    IN  IF function_name = "get_accounts_by_mobile"
        THEN LET m1 == [m EXCEPT !.convs =
                          add_tool_response(m.convs, session_id, tool_call_id,
                              Content(<<"status:", result.status, "accounts_found">>,
                                      None, None))]
             IN  IF result.status = "success"
                 THEN [m1 EXCEPT
                         !.ctxs = set_retrieved_accounts(m1.ctxs, session_id, result.accounts),
                         !.convs = add_system_message(m1.convs, session_id,
                                       Plain("The system has found account(s)"))]
                 ELSE m1
        ELSE IF function_name = "validate_account" /\ result.valid
        THEN _process_valid_account(answered, session_id, function_args, fault)
        ELSE IF function_name = "validate_pin" /\ result.valid
        THEN _process_valid_pin(answered, session_id, function_args, t)
        ELSE IF function_name = "get_account_details" /\ result.status = "success"
        THEN Authenticate(answered, session_id, function_args.account_number, t)
        ELSE answered

\* The locals of _process_tool_calls: the state, the exception that left the
\* method (None while it runs), whether it has returned, the result of the
\* first validate_account ("none", "valid" or "invalid") with its id, and
\* sanitized_tool_call (bound: it has been assigned).
Locals(m, exc, returned, validation, validation_id, bound, sanitized_tool_call) ==
    [m |-> m, exc |-> exc, returned |-> returned, validation |-> validation,
     validation_id |-> validation_id, bound |-> bound,
     sanitized_tool_call |-> sanitized_tool_call]

\* The first loop of _process_tool_calls after the registry has run the
\* validate_account call.
account_validation_locals(m, session_id, tool_call, function_args, result) ==
    LET sanitized_tool_call == [tool_call EXCEPT !.arguments = function_args]
        m1 == Logged(m, result.calls)
        m2 == [m1 EXCEPT !.convs =
                 add_tool_response(add_tool_call(m1.convs, session_id, sanitized_tool_call),
                                   session_id, tool_call.id, result.json)]
    IN  IF result.exc # None
        THEN Locals([m1 EXCEPT !.convs =
                        add_tool_response(m1.convs, session_id, tool_call.id,
                            Content(<<"error:", result.exc, "valid: false">>, None, None))],
                    None, FALSE, "none", None, FALSE, tool_call)
        ELSE IF ~result.valid /\ len(function_args.account_number) <= 4
        THEN Locals([m2 EXCEPT !.convs =
                        add_assistant_message(m2.convs, session_id,
                            Content(<<"I couldn't find an account ending with">>,
                                    function_args.account_number, None))],
                    None, TRUE, "invalid", tool_call.id, TRUE, sanitized_tool_call)
        ELSE Locals(m2, None, FALSE, IF result.valid THEN "valid" ELSE "invalid",
                    tool_call.id, TRUE, sanitized_tool_call)

\* The first loop of _process_tool_calls at the validate_account call.
validate_account_call(m, session_id, tool_call, function_args, fault) ==
    IF json_loads_raises(tool_call.arguments)
    THEN Locals(m, "ValueError", FALSE, "none", None, FALSE, tool_call)
    ELSE account_validation_locals(m, session_id, tool_call, function_args,
             registry_execute_tool("validate_account", function_args, fault))

\* The first loop of _process_tool_calls: j is the first validate_account of
\* the batch (0: there is none).
validate_account_at(m, session_id, tool_calls, j, caller_id, fault) ==
    IF j = 0
    THEN Locals(m, None, FALSE, "none", None, FALSE, ToolCall(None, None, EmptyDict))
    ELSE validate_account_call(m, session_id, tool_calls[j],
             with_mobile_number(tool_calls[j].arguments, caller_id), fault)

\* The first loop of _process_tool_calls: the first validate_account of the
\* batch is executed before everything else.
_validate_account_first(m, session_id, tool_calls, caller_id, fault) ==
    validate_account_at(m, session_id, tool_calls,
        first_index({k \in 1..Len(tool_calls) : tool_calls[k].name = "validate_account"}),
        caller_id, fault)

\* The arguments a tool call is executed with.
function_args_of(tool_call, session_id, caller_id) ==
    LET with_ids == IF tool_call.name = "get_accounts_by_mobile"
                       /\ "call_id" \notin DOMAIN tool_call.arguments
                    THEN DictSet(DictSet(tool_call.arguments, "call_id", "call_id"),
                                 "session_id", session_id)
                    ELSE tool_call.arguments
    IN  IF tool_call.name \in {"validate_account", "validate_pin", "get_account_details"}
        THEN with_mobile_number(with_ids, caller_id) ELSE with_ids

\* The arguments as they are written to the conversation.
sanitized_args_of(function_args) ==
    IF "pin" \in DOMAIN function_args
    THEN [function_args EXCEPT !["pin"] = "****"] ELSE function_args

\* One iteration of the second loop after the registry has run the tool.
tool_call_executed(v, session_id, tool_call, function_args, result, fault, t) ==
    LET sanitized_tool_call == [tool_call EXCEPT !.arguments = sanitized_args_of(function_args)]
        m1 == Logged(v.m, result.calls)
    IN  IF result.exc = None
        THEN [v EXCEPT !.m = _process_tool_result(
                                 [m1 EXCEPT !.convs = add_tool_call(m1.convs, session_id,
                                                          sanitized_tool_call)],
                                 session_id, tool_call.name, function_args, result,
                                 tool_call.id, fault, t),
                       !.bound = TRUE,
                       !.sanitized_tool_call = sanitized_tool_call]
        ELSE IF result.exc \in {"ValueError", "KeyError"}
        THEN IF v.bound
             THEN [v EXCEPT !.m =
                     [m1 EXCEPT !.convs =
                         add_tool_response(
                             add_tool_call(m1.convs, session_id, v.sanitized_tool_call),
                             session_id, tool_call.id,
                             Content(<<"error:", result.exc>>, None, None))]]
             ELSE [v EXCEPT !.m = m1, !.exc = "UnboundLocalError"]
        ELSE [v EXCEPT !.m = m1, !.exc = result.exc]

\* One iteration of the second loop of _process_tool_calls.
_process_tool_call(v, session_id, tool_call, caller_id, fault, t) ==
    IF tool_call.name = "validate_account" /\ tool_call.id = v.validation_id THEN v
    ELSE IF tool_call.name = "validate_pin" /\ v.validation = "invalid" THEN v
    ELSE IF json_loads_raises(tool_call.arguments) THEN [v EXCEPT !.exc = "ValueError"]
    ELSE tool_call_executed(v, session_id, tool_call,
             function_args_of(tool_call, session_id, caller_id),
             registry_execute_tool(tool_call.name,
                 function_args_of(tool_call, session_id, caller_id), fault),
             fault, t)

RECURSIVE _process_remaining_tool_calls(_, _, _, _, _, _, _)
\* The second loop of _process_tool_calls, from the i-th tool call on.
_process_remaining_tool_calls(v, session_id, tool_calls, i, caller_id, fault, t) ==
    IF i > Len(tool_calls) \/ v.exc # None THEN v
    ELSE _process_remaining_tool_calls(
             _process_tool_call(v, session_id, tool_calls[i], caller_id, fault, t),
             session_id, tool_calls, i + 1, caller_id, fault, t)

\* The second loop runs unless the first loop raised or returned.
process_tool_calls_after_validation(first, session_id, tool_calls, caller_id, fault, t) ==
    IF first.exc # None \/ first.returned THEN first
    ELSE _process_remaining_tool_calls(first, session_id, tool_calls, 1, caller_id, fault, t)

\* What _process_tool_calls leaves of its locals.
tool_calls_processed(v) == [m |-> v.m, exc |-> v.exc]

\* The state _process_tool_calls leaves and the exception it raises.
_process_tool_calls(m, session_id, tool_calls, fault, t) ==
    LET m0 == [m EXCEPT !.ctxs = get_session_context(m.ctxs, session_id)]
        caller_id == get_caller_id(get_session_context(m.ctxs, session_id), session_id)
    IN  tool_calls_processed(
            process_tool_calls_after_validation(
                _validate_account_first(m0, session_id, tool_calls, caller_id, fault),
                session_id, tool_calls, caller_id, fault, t))

_add_contextual_guidance(m, session_id) ==
    IF has_accounts(m.ctxs, session_id) /\ ~is_account_selected(m.ctxs, session_id)
    THEN [m EXCEPT !.convs = add_system_message(m.convs, session_id,
                                 Plain("The user has accounts associated with their phone number"))]
    ELSE m

\* _add_security_guidance with what is_authenticated answered.
security_guidance(m, session_id, authenticated) ==
    IF authenticated.ret
    THEN [m EXCEPT !.convs = add_system_message(m.convs, session_id,
                                 Plain("Remember to include ALL available account information"))]
    ELSE IF has_accounts(m.ctxs, session_id)
    THEN IF is_account_selected(m.ctxs, session_id)
         THEN [m EXCEPT !.convs = add_system_message(m.convs, session_id,
                                      Plain("The user has selected an account"))]
         ELSE [m EXCEPT !.convs = add_system_message(m.convs, session_id,
                                      Plain("The user has accounts, but hasn't selected one yet"))]
    ELSE m

\* The session that is_authenticated found expired is removed.
after_is_authenticated(m, authenticated) == [m EXCEPT !.auth = authenticated.store]

_add_security_guidance(m, session_id, t) ==
    security_guidance(after_is_authenticated(m, is_authenticated(m.auth, session_id, t)),
                      session_id, is_authenticated(m.auth, session_id, t))

\* What a handler leaves when it returns (done) or is suspended at the await
\* of the LLM: the state, the response, the sessions the sweep found expired,
\* the sessions that had a conversation or a context when the sweep was over,
\* the PIN that the awaiting-PIN branch handled (None: it handled none), and
\* the exception that leaves process_message (None: it returns or awaits).
Outcome(m, done, response, expired) ==
    [m |-> m, done |-> done, response |-> response, expired |-> expired,
     remaining |-> {}, pin |-> None, exc |-> None]

restricted_refusal == Plain("I can only provide account balance information (loans, credit cards, investments)")

restricted_override == Plain("I can only provide account balance information (other products)")

fallback_response == Plain("I'm having trouble processing your request right now")

llm_request == Request("llm", None, None, TRUE)

\* The conversation is read and sent to the LLM.
awaiting_llm(m, session_id) ==
    Logged([m EXCEPT !.convs = get_conversation(m.convs, session_id)], <<llm_request>>)

\* process_message after _process_authentication_state; pin is the PIN the
\* awaiting-PIN branch handled.
process_message_after_authentication_state(state, pin, session_id, message, expired) ==
    IF state.has
    THEN [Outcome(state.m, TRUE, state.response, expired) EXCEPT !.pin = pin]
    ELSE Outcome(
             awaiting_llm(
                 _add_contextual_guidance(
                     [state.m EXCEPT !.convs =
                         get_conversation(add_user_message(state.m.convs, session_id, message),
                                          session_id)],
                     session_id),
                 session_id),
             FALSE, NoContent, expired)

\* The reply to a message that asks for the balance.
ask_for_digits(m, session_id, expired) ==
    Outcome(Reply(m, session_id,
                  Plain("Please provide the last 4 digits of your account number")).m,
            TRUE, Plain("Please provide the last 4 digits of your account number"), expired)

\* process_message after the field query of an authenticated session.
process_message_after_field_query(field, session_id, message, expired, fault, t) ==
    IF field.has
    THEN Outcome(field.m, TRUE, field.response, expired)
    ELSE IF contains_phrase(message_lower(message), <<"balance">>)
    THEN ask_for_digits(field.m, session_id, expired)
    ELSE process_message_after_authentication_state(
             _process_authentication_state(field.m, session_id, message, fault, t),
             awaited_pin(field.m, session_id, message, t),
             session_id, message, expired)

\* A variant that never tries the field query.
process_message_without_field_query(m, session_id, message, expired, authenticated, fault, t) ==
    process_message_after_field_query(ReturnedNone(m), session_id, message, expired, fault, t)

\* process_message once is_authenticated has answered.
process_message_authenticated(m, session_id, message, expired, authenticated, fault, t) ==
    process_message_after_field_query(
        IF authenticated.ret
        THEN _handle_field_query(m, session_id,
                 get_authenticated_account(m.auth, session_id), message, fault)
        ELSE ReturnedNone(m),
        session_id, message, expired, fault, t)

\* process_message after the sweep of the expired sessions.
process_message_after_sweep(m, session_id, message, expired, fault, t) ==
    IF contains_restricted_keywords(message, restricted_keywords)
    THEN Outcome(m, TRUE, restricted_refusal, expired)
    ELSE process_message_authenticated(
             after_is_authenticated(m, is_authenticated(m.auth, session_id, t)),
             session_id, message, expired,
             is_authenticated(m.auth, session_id, t), fault, t)

\* The sweep: the sessions cleanup_expired_sessions names leave the
\* conversations and the contexts, the session of the request is marked
\* active and has a context again.
process_message_sweep(m, ctxs, session_id, message, expired_sessions, fault, t) ==
    [process_message_after_sweep(
         Machine(get_session_context(clear_expired_sessions(ctxs, expired_sessions.ret),
                                     session_id),
                 clear_expired_conversations(m.convs, expired_sessions.ret),
                 update_session_activity(expired_sessions.store, session_id, t),
                 m.log),
         session_id, message, expired_sessions.ret, fault, t)
     EXCEPT !.remaining =
         DOMAIN clear_expired_conversations(m.convs, expired_sessions.ret)
         \cup DOMAIN clear_expired_sessions(ctxs, expired_sessions.ret)]

\* The context of the session takes the caller of the request.
context_with_caller(ctxs, session_id, caller_id) ==
    IF ctxs[session_id].caller_id = None /\ caller_id # None
    THEN initialize_session(ctxs, session_id, caller_id)
    ELSE IF caller_id # None
    THEN update_session_context(ctxs, session_id, [caller_id |-> caller_id])
    ELSE ctxs

\* A variant that marks the session active before it sweeps: the refresh
\* reaches the record the sweep should have taken.
process_message_refreshing_first(m, session_id, message, caller_id, fault, t) ==
    process_message_sweep(m,
        context_with_caller(get_session_context(m.ctxs, session_id), session_id, caller_id),
        session_id, message,
        cleanup_expired_sessions(update_session_activity(m.auth, session_id, t), t), fault, t)

\* process_message up to its return or to the first await of the LLM.
process_message(m, session_id, message, caller_id, fault, t) ==
    process_message_sweep(m,
        context_with_caller(get_session_context(m.ctxs, session_id), session_id, caller_id),
        session_id, message, cleanup_expired_sessions(m.auth, t), fault, t)

\* The end of process_message: the text of the LLM becomes the response.
final_response(m, session_id, content) ==
    LET content1 == IF content.text = <<>>
                    THEN Plain("I apologize, but I'm having trouble generating a response")
                    ELSE content
        content2 == IF contains_restricted_keywords(content1.text, restricted_keywords)
                    THEN restricted_override ELSE content1
        replied  == Reply(m, session_id, content2)
    IN  Outcome(replied.m, TRUE, content2, {})

\* A variant without the outermost handler: the exception of the tool calls
\* leaves process_message.
after_tool_calls_uncaught(processed, session_id, t) ==
    IF processed.exc # None
    THEN [Outcome(processed.m, TRUE, NoContent, {}) EXCEPT !.exc = processed.exc]
    ELSE Outcome(awaiting_llm(_add_security_guidance(processed.m, session_id, t), session_id),
                 FALSE, NoContent, {})

\* process_message after _process_tool_calls: the outermost handler turns an
\* exception into the fallback response.
after_tool_calls(processed, session_id, t) ==
    IF processed.exc # None THEN Outcome(processed.m, TRUE, fallback_response, {})
    ELSE Outcome(awaiting_llm(_add_security_guidance(processed.m, session_id, t), session_id),
                 FALSE, NoContent, {})

\* process_message from the first answer of the LLM to its return or to the
\* second await; an exception of the tool calls ends it with the fallback.
process_llm_response(m, session_id, response, fault, t) ==
    IF response.tool_calls = <<>> THEN final_response(m, session_id, response.content)
    ELSE after_tool_calls(_process_tool_calls(m, session_id, response.tool_calls, fault, t),
                          session_id, t)

\* inject_prompt
inject_prompt(convs, session_id, prompt) ==
    [ret |-> TRUE, convs |-> add_system_message(convs, session_id, prompt)]

\* A variant that stops at the first manager that had the session.
end_session_short_circuit(convs, auth, ctxs, session_id) ==
    LET conversation_ended == end_conversation(convs, session_id)
        auth_ended == auth_end_session(auth, session_id)
        context_ended == context_end_session(ctxs, session_id)
    IN  IF conversation_ended.ret
        THEN [ret |-> TRUE, convs |-> conversation_ended.convs, auth |-> auth, ctxs |-> ctxs]
        ELSE IF auth_ended.ret
        THEN [ret |-> TRUE, convs |-> convs, auth |-> auth_ended.store, ctxs |-> ctxs]
        ELSE [ret |-> context_ended.ret, convs |-> convs, auth |-> auth,
              ctxs |-> context_ended.ctxs]

\* end_session: the three removals are made before their results are combined.
end_session(convs, auth, ctxs, session_id) ==
    LET conversation_ended == end_conversation(convs, session_id)
        auth_ended == auth_end_session(auth, session_id)
        context_ended == context_end_session(ctxs, session_id)
    IN  [ret |-> conversation_ended.ret \/ auth_ended.ret \/ context_ended.ret,
         convs |-> conversation_ended.convs,
         auth |-> auth_ended.store,
         ctxs |-> context_ended.ctxs]

(***************************************************************************)
(* The chatbot under any sequence of requests, LLM answers and backend     *)
(* faults.                                                                 *)
(***************************************************************************)
\* The requests (process_message, inject_prompt) of a behaviour.
MaxCalls == 2

\* The process_message calls that may be suspended at the LLM at a time.
MaxInflight == 1

\* The requests of a behaviour that reach the LLM.
MaxLLMCalls == 1

Messages ==
    { <<"hello">>, <<"need", "a", "Loan">>, <<"my", "balance">>, <<"5678">>, <<"1234">>,
      <<"balance", "5678">> }

CallerIds == {None, "01712345678"}

NoFault == [get_accounts_by_mobile |-> "ok", verify_pin |-> "ok", get_account_details |-> "ok"]

\* At most one endpoint fails during a step.
Faults ==
    { NoFault,
      [NoFault EXCEPT !.get_accounts_by_mobile = "error"],
      [NoFault EXCEPT !.get_accounts_by_mobile = "malformed"],
      [NoFault EXCEPT !.verify_pin = "malformed"],
      [NoFault EXCEPT !.get_account_details = "error"],
      [NoFault EXCEPT !.get_account_details = "malformed"] }

\* The faults that can change a step: the failing endpoint is one the step
\* calls when nothing fails (up to its first call of that endpoint the step
\* runs the same with and without the fault).
FaultsFor(log) ==
    { fault \in Faults :
        \A endpoint \in DOMAIN fault :
            fault[endpoint] # "ok" => \E i \in 1..Len(log) : log[i].api = endpoint }

\* The texts of the LLM: an answer, an empty text, an answer that names a
\* restricted product.
LLMContents ==
    { Content(<<"Sure">>, None, None), Content(<<>>, None, None),
      Content(<<"consider", "a", "mortgage">>, None, None) }

\* The function calls the LLM may ask for.
LLMFunctions ==
    { [name |-> "validate_account", arguments |-> [account_number |-> "5678"]],
      [name |-> "validate_account", arguments |-> [account_number |-> "1234"]],
      [name |-> "validate_pin",
       arguments |-> [account_number |-> "1311002345678", pin |-> "1234"]],
      [name |-> "validate_pin", arguments |-> [account_number |-> "5678", pin |-> "1234"]],
      [name |-> "get_account_details",
       arguments |-> [account_number |-> "5678", pin |-> "1234"]],
      [name |-> "get_accounts_by_mobile", arguments |-> [mobile_number |-> "01712345678"]],
      [name |-> "transfer_funds", arguments |-> [amount |-> "100"]],
      [name |-> "validate_pin", arguments |-> Malformed] }

\* The batches of tool calls of an answer: their ids are call_1, call_2,
\* call_3.  A validate_pin call comes after or before a validate_account call,
\* after one for a full number that is no account, and after two of them.
LLMToolCalls ==
    { <<ToolCall("call_1", f.name, f.arguments)>> : f \in LLMFunctions } \cup
    { <<ToolCall("call_1", f.name, f.arguments), ToolCall("call_2", g.name, g.arguments)>> :
        f \in {h \in LLMFunctions : h.name = "validate_account"},
        g \in {h \in LLMFunctions :
                 h.name \in {"validate_account", "transfer_funds"}
                 \/ (h.name = "validate_pin" /\ h.arguments = [account_number |-> "5678", pin |-> "1234"])} } \cup
    { <<ToolCall("call_1", "validate_pin", [account_number |-> "5678", pin |-> "1234"]),
        ToolCall("call_2", "validate_account", [account_number |-> a])>> :
        a \in {"5678", "1234"} } \cup
    { <<ToolCall("call_1", "validate_account", [account_number |-> "9999999999999"]),
        ToolCall("call_2", "validate_pin", [account_number |-> "5678", pin |-> "1234"])>>,
      <<ToolCall("call_1", "validate_account", [account_number |-> "5678"]),
        ToolCall("call_2", "validate_account", [account_number |-> "1234"]),
        ToolCall("call_3", "validate_pin", [account_number |-> "5678", pin |-> "1234"])>> }

LLMResponses ==
    { [content |-> c, tool_calls |-> <<>>] : c \in LLMContents } \cup
    { [content |-> NoContent, tool_calls |-> b] : b \in LLMToolCalls }

\* The PINs that the validate_pin and get_account_details calls of a batch
\* carry.
tool_call_pins(tool_calls) ==
    { arg(tool_calls[i].arguments, "pin") :
        i \in {j \in 1..Len(tool_calls) :
                 tool_calls[j].name \in {"validate_pin", "get_account_details"}} } \ {None}

\* The record of a request: what was asked, what was answered (done: the
\* handler returned, else it is suspended at the LLM), what the step asked of
\* the backend and of the LLM, the PINs the step handled, the tool calls the
\* LLM answered with (llm_response only), the caller id the request came with
\* (process_message only), the exception that left the handler
\* (None: it returned or is suspended), the stores that had
\* the session and the context it had before the step (a new one when it had
\* none), and the number of requests so far (n) and of
\* those that reached the LLM (llm).
ChatCall(op, sid, message, outcome, ret, n) ==
    [op |-> op, sid |-> sid, at |-> now, n |-> n, llm |-> call.llm, message |-> message,
     done |-> outcome.done, response |-> outcome.response,
     log |-> outcome.m.log, expired |-> outcome.expired,
     remaining |-> outcome.remaining, pins |-> {outcome.pin} \ {None}, ret |-> ret,
     tool_calls |-> <<>>, exc |-> outcome.exc, caller_id |-> None,
     context |-> IF sid \in DOMAIN session_contexts THEN session_contexts[sid]
                 ELSE new_session_context(None),
     had |-> {store \in {"conversations", "authenticated_sessions", "session_contexts"} :
                 sid \in DOMAIN (CASE store = "conversations" -> conversations
                                   [] store = "authenticated_sessions" -> authenticated_sessions
                                   [] OTHER -> session_contexts)}]

Init ==
    /\ now = 0
    /\ authenticated_sessions = EmptyDict
    /\ session_contexts = EmptyDict
    /\ conversations = EmptyDict
    /\ inflight = {}
    /\ ever_authenticated = {}
    /\ call = [op |-> "init", sid |-> None, at |-> 0, n |-> 0, llm |-> 0, message |-> <<>>,
               done |-> TRUE, response |-> NoContent,
               log |-> <<>>, expired |-> {}, remaining |-> {}, pins |-> {},
               ret |-> FALSE, tool_calls |-> <<>>, exc |-> None, caller_id |-> None,
               context |-> new_session_context(None),
               had |-> {}]

\* The state of the managers at the start of a step.
Current == Machine(session_contexts, conversations, authenticated_sessions, <<>>)

\* The managers take the state a handler leaves.
Commit(outcome, sid) ==
    /\ session_contexts' = outcome.m.ctxs
    /\ conversations' = outcome.m.convs
    /\ authenticated_sessions' = outcome.m.auth
    /\ ever_authenticated' =
          IF \E i \in 1..Len(outcome.m.log) : outcome.m.log[i].api = "authenticate_session"
          THEN ever_authenticated \cup {sid} ELSE ever_authenticated

\* A free id for a suspended call.
FreeId == CHOOSE i \in 1..(MaxInflight + 1) : \A c \in inflight : c.id # i

\* Time passes until the sessions authenticated so far have expired.
Later ==
    /\ now + SESSION_TIMEOUT + 1 <= MaxNow
    /\ now' = now + SESSION_TIMEOUT + 1
    /\ call' = [call EXCEPT !.op = "later"]
    /\ UNCHANGED <<authenticated_sessions, session_contexts, conversations, inflight,
                   ever_authenticated>>

\* The sessions a request may name: the sessions are interchangeable, so the
\* first request of a behaviour names s1.
SessionsNow == IF call.n = 0 THEN {"s1"} ELSE Sessions

\* POST /chat: process_message runs to its return or to its first await.
ProcessMessage ==
    /\ call.n < MaxCalls
    /\ \E s \in SessionsNow, message \in Messages, caller_id \in CallerIds :
        \E fault \in FaultsFor(process_message(Current, s, message, caller_id, NoFault, now).m.log) :
          \E outcome \in {process_message(Current, s, message, caller_id, fault, now)} :
              /\ \/ outcome.done
                 \/ Cardinality(inflight) < MaxInflight /\ call.llm < MaxLLMCalls
              /\ Commit(outcome, s)
              /\ inflight' = IF outcome.done THEN inflight
                             ELSE inflight \cup {[sid |-> s, pc |-> "llm1", id |-> FreeId]}
              /\ call' = [ChatCall("process_message", s, message, outcome,
                                   outcome.done, call.n + 1)
                             EXCEPT !.llm = IF outcome.done THEN call.llm ELSE call.llm + 1,
                                    !.caller_id = caller_id]
    /\ UNCHANGED now

\* The first answer of the LLM arrives: the tool calls are processed.
LLMResponse ==
    /\ \E c \in inflight, response \in LLMResponses :
        \E fault \in FaultsFor(process_llm_response(Current, c.sid, response, NoFault, now).m.log) :
          \E outcome \in {process_llm_response(Current, c.sid, response, fault, now)} :
              /\ c.pc = "llm1"
              /\ Commit(outcome, c.sid)
              /\ inflight' = IF outcome.done THEN inflight \ {c}
                             ELSE (inflight \ {c}) \cup {[c EXCEPT !.pc = "llm2"]}
              /\ call' = [ChatCall("llm_response", c.sid, <<>>, outcome,
                                   outcome.done, call.n)
                             EXCEPT !.pins = tool_call_pins(response.tool_calls),
                                    !.tool_calls = response.tool_calls]
    /\ UNCHANGED now

\* The answer of the LLM to the tool results arrives.
LLMFinalResponse ==
    /\ \E c \in inflight, content \in LLMContents :
          \E outcome \in {final_response(Current, c.sid, content)} :
              /\ c.pc = "llm2"
              /\ Commit(outcome, c.sid)
              /\ inflight' = inflight \ {c}
              /\ call' = ChatCall("llm_final_response", c.sid, <<>>, outcome,
                                  TRUE, call.n)
    /\ UNCHANGED now

\* POST /inject_prompt
InjectPrompt ==
    /\ call.n < MaxCalls
    /\ \E s \in SessionsNow :
          LET r == inject_prompt(conversations, s, Plain("injected prompt"))
          IN  /\ conversations' = r.convs
              /\ call' = ChatCall("inject_prompt", s, <<>>,
                                  Outcome(Current, TRUE, NoContent, {}), r.ret, call.n + 1)
    /\ UNCHANGED <<now, authenticated_sessions, session_contexts, inflight, ever_authenticated>>

\* POST /end_session
EndSession ==
    /\ \E s \in Sessions :
          LET r == end_session(conversations, authenticated_sessions, session_contexts, s)
          IN  /\ conversations' = r.convs
              /\ authenticated_sessions' = r.auth
              /\ session_contexts' = r.ctxs
              /\ call' = ChatCall("end_session", s, <<>>,
                                  Outcome(Current, TRUE, NoContent, {}), r.ret, call.n)
    /\ UNCHANGED <<now, inflight, ever_authenticated>>

Next ==
    \/ Later
    \/ ProcessMessage
    \/ LLMResponse
    \/ LLMFinalResponse
    \/ InjectPrompt
    \/ EndSession

Spec == Init /\ [][Next]_vars

(***************************************************************************)
(* The chatbot from a session that has gone through the funnel: caller     *)
(* 01712345678 has sent the digits 5678 and then the PIN 1234 in session   *)
(* s1, and the backend has confirmed both.  The requests that follow are   *)
(* those of Spec.                                                          *)
(***************************************************************************)
\* The managers after process_message(s1, "5678") of the caller.
account_selected_start ==
    process_message(Machine(EmptyDict, EmptyDict, EmptyDict, <<>>), "s1", <<"5678">>,
                    "01712345678", NoFault, 0).m

\* The managers after the process_message(s1, "1234") that follows.
authenticated_start ==
    process_message(Machine(account_selected_start.ctxs, account_selected_start.convs,
                            account_selected_start.auth, <<>>),
                    "s1", <<"1234">>, None, NoFault, 0).m

InitAuthenticated ==
    /\ now = 0
    /\ authenticated_sessions = authenticated_start.auth
    /\ session_contexts = authenticated_start.ctxs
    /\ conversations = authenticated_start.convs
    /\ inflight = {}
    /\ ever_authenticated = {"s1"}
    /\ call = [op |-> "init", sid |-> None, at |-> 0, n |-> 0, llm |-> 0, message |-> <<>>,
               done |-> TRUE, response |-> NoContent,
               log |-> <<>>, expired |-> {}, remaining |-> {}, pins |-> {},
               ret |-> FALSE, tool_calls |-> <<>>, exc |-> None, caller_id |-> None,
               context |-> new_session_context(None), had |-> {}]

SpecAuthenticated == InitAuthenticated /\ [][Next]_vars

(***************************************************************************)
(* Properties of the chatbot, checked under Spec.                          *)
(***************************************************************************)
\* The step recorded in call sent this request.
Asked(api) == \E i \in 1..Len(call.log) : call.log[i].api = api

\* C1: in every reachable state the selected account of every session
\* context is absent (None) or a number of at least 10 characters; no context
\* ever holds the last four digits as its selected account.
C1_SelectedAccountIsFull ==
    \A s \in DOMAIN session_contexts :
        \/ session_contexts[s].selected_account = None
        \/ len(session_contexts[s].selected_account) >= 10

\* A session has selected an account through a validate_account tool call
\* that carried the last four digits.
C1_Witness ==
    /\ call.op = "llm_response"
    /\ Asked("get_account_details")
    /\ call.sid \in DOMAIN session_contexts
    /\ session_contexts[call.sid].account_selected
    /\ session_contexts[call.sid].selected_account \in AccountNumbers

\* The turn spells the PIN: in its text, or as the pin argument of a tool call.
SpellsPin(turn, pin) ==
    \/ turn.content.pin = pin
    \/ \E i \in 1..Len(turn.content.text) : turn.content.text[i] = pin
    \/ \E i \in 1..Len(turn.tool_calls) : arg(turn.tool_calls[i].arguments, "pin") = pin

\* C2: after process_message has handled a PIN, in the awaiting-PIN branch or
\* in a validate_pin or get_account_details tool call, whatever the backend
\* answered, no turn of the session's conversation contains the PIN: the tool
\* call turns carry "****" and no other turn repeats the digits.
C2_NoRawPinInHistory ==
    call.op \in {"process_message", "llm_response"} =>
        \A pin \in call.pins :
            \A i \in 1..Len(conversation_of(conversations, call.sid)) :
                ~SpellsPin(conversation_of(conversations, call.sid)[i], pin)

\* C3: a step records an authentication only after the backend has confirmed
\* a PIN in that step, and the account it records is the account whose PIN the
\* backend confirmed, also when the tool call carried a number of at most four
\* characters.
C3_RecordsTheConfirmedAccount ==
    \A i \in 1..Len(call.log) :
        call.log[i].api = "authenticate_session" =>
            \E j \in 1..(i - 1) :
                /\ call.log[j].api = "verify_pin"
                /\ call.log[j].ok
                /\ call.log[j].account = call.log[i].account

\* C4: a session is authenticated only through the funnel: when a step
\* records an authentication, the session's caller id is known and the session
\* has selected the account that is recorded.
C4_AuthenticatedOnlyThroughFunnel ==
    (call.op \in {"process_message", "llm_response"} /\ Asked("authenticate_session")) =>
        /\ call.sid \in DOMAIN session_contexts
        /\ session_contexts[call.sid].caller_id # None
        /\ session_contexts[call.sid].account_selected
        /\ call.sid \in DOMAIN authenticated_sessions
        /\ session_contexts[call.sid].selected_account =
               authenticated_sessions[call.sid].account

\* The message has the word "loan", in either case.
AsksForLoan(message) == \E i \in 1..Len(message) : message[i] \in {"loan", "Loan"}

\* C5: a message with a restricted keyword as a whole word, in any case, is
\* answered with the fixed refusal, whatever the state of the session, and the
\* step asks nothing of the LLM and nothing of the backend.
C5_RestrictedMessageIsRefused ==
    (call.op = "process_message" /\ AsksForLoan(call.message)) =>
        /\ call.done
        /\ call.response = restricted_refusal
        /\ call.log = <<>>

\* An authenticated session has sent a message with a restricted keyword.
C5_Witness ==
    /\ call.op = "process_message"
    /\ AsksForLoan(call.message)
    /\ "authenticated_sessions" \in call.had
    /\ call.sid \in DOMAIN authenticated_sessions

\* C6: when end_session(id) has returned, id is in none of the three stores:
\* it has no conversation, no authentication record and no context.
C6_EndSessionRemovesEverything ==
    call.op = "end_session" =>
        /\ call.sid \notin DOMAIN conversations
        /\ call.sid \notin DOMAIN authenticated_sessions
        /\ call.sid \notin DOMAIN session_contexts

\* end_session has ended a session that was in the three stores.
C6_Witness ==
    /\ call.op = "end_session"
    /\ call.ret
    /\ call.had = {"conversations", "authenticated_sessions", "session_contexts"}

\* C7: every session that the sweep at the start of process_message finds
\* expired has lost its conversation and its context when the sweep is over,
\* and a session other than the one of the request has none of the three when
\* the step ends.
C7_SweepRemovesExpiredSessions ==
    call.op = "process_message" =>
        \A e \in call.expired :
            /\ e \notin call.remaining
            /\ e # call.sid =>
                  /\ e \notin DOMAIN conversations
                  /\ e \notin DOMAIN session_contexts
                  /\ e \notin DOMAIN authenticated_sessions

\* The sweep of a request has found another session expired.
C7_Witness ==
    /\ call.op = "process_message"
    /\ \E e \in call.expired : e # call.sid /\ e \in ever_authenticated

(***************************************************************************)
(* The authentication funnel, checked under Spec.                          *)
(***************************************************************************)
details_reply == Plain("Here are your account details")

\* The step recorded in call is a process_message that handled a PIN in the
\* awaiting-PIN branch, and the first thing it asked of the backend was a
\* verify_pin that answered that the PIN is valid.
ValidAwaitedPin ==
    /\ call.op = "process_message"
    /\ call.pins # {}
    /\ call.log # <<>>
    /\ call.log[1].api = "verify_pin"
    /\ call.log[1].ok

\* C11: when the awaiting-PIN branch handled a PIN that the authentication
\* backend reported valid for the selected account, the session is
\* authenticated for exactly the selected account and the reply of that call
\* renders the account details (never a text about an incorrect PIN).
C11_ValidPinRendersDetails ==
    ValidAwaitedPin =>
        /\ call.sid \in DOMAIN authenticated_sessions
        /\ authenticated_sessions[call.sid].account =
               session_contexts[call.sid].selected_account
        /\ call.response = details_reply

\* The step recorded in call is a process_message that handled a PIN in the
\* awaiting-PIN branch, and the verify_pin it asked first did not answer that
\* the PIN is valid.
InvalidAwaitedPin ==
    /\ call.op = "process_message"
    /\ call.pins # {}
    /\ call.log # <<>>
    /\ call.log[1].api = "verify_pin"
    /\ ~call.log[1].ok

\* C12: a PIN that the backend reports invalid in the awaiting-PIN branch
\* leaves the selected account, the account_selected and awaiting_pin flags and
\* the retrieved accounts of the session as they were and the session
\* unauthenticated: the session is still awaiting the PIN of the same account.
C12_InvalidPinKeepsSelection ==
    InvalidAwaitedPin =>
        /\ call.sid \in DOMAIN session_contexts
        /\ session_contexts[call.sid].selected_account = call.context.selected_account
        /\ session_contexts[call.sid].account_selected = call.context.account_selected
        /\ session_contexts[call.sid].awaiting_pin = call.context.awaiting_pin
        /\ session_contexts[call.sid].retrieved_accounts = call.context.retrieved_accounts
        /\ ~is_authenticated(authenticated_sessions, call.sid, now).ret
        /\ awaited_pin(Current, call.sid, <<"1234">>, now) = "1234"

\* A wrong PIN was answered with the re-prompt while an account was selected.
C12_Witness ==
    /\ InvalidAwaitedPin
    /\ call.response = Plain("Sorry, the PIN you provided is incorrect")
    /\ call.context.selected_account \in AccountNumbers
    /\ call.log[1].account = call.context.selected_account

\* The step recorded in call is a process_message for a session that had an
\* account selected, was awaiting the PIN, had a caller and no authentication
\* record, with a message that names no restricted product.
AwaitingPinBefore ==
    /\ call.op = "process_message"
    /\ call.context.account_selected
    /\ call.context.awaiting_pin
    /\ call.context.caller_id # None
    /\ "authenticated_sessions" \notin call.had
    /\ ~contains_restricted_keywords(call.message, restricted_keywords)

\* C13: a non-restricted message of a session that has an account selected, is
\* awaiting the PIN and is not authenticated is answered by the awaiting-PIN
\* branch: the call returns without asking the LLM and without looking up the
\* accounts of the caller, a message that carries a PIN has that PIN handled,
\* and a message without a PIN gets the PIN re-prompt.
C13_AwaitingPinHasPriority ==
    AwaitingPinBefore =>
        /\ call.done
        /\ ~Asked("llm")
        /\ ~Asked("get_accounts_by_mobile")
        /\ IF pin_of_message(call.message) = None
           THEN call.response = Plain("I need your 4-digit PIN")
           ELSE call.pins = {pin_of_message(call.message)}

\* The accounts of the directory that belong to the caller and end with the
\* digits.
accounts_ending_with(caller_id, digits) ==
    {k \in 1..Len(sample_accounts) :
        /\ sample_accounts[k].mobile = caller_id
        /\ endswith(sample_accounts[k].account_number, digits)}

\* The step recorded in call is a process_message, with a message that names
\* no restricted product, of a session that was not awaiting a PIN and whose
\* caller has exactly one account that ends with the four digits of the
\* message, while the backend answered every request of the step.
OneAccountMatchesDigits ==
    /\ call.op = "process_message"
    /\ ~contains_restricted_keywords(call.message, restricted_keywords)
    /\ ~call.context.awaiting_pin
    /\ call.sid \in DOMAIN session_contexts
    /\ session_contexts[call.sid].caller_id # None
    /\ extract_last_4_digits(call.message) # None
    /\ Cardinality(accounts_ending_with(session_contexts[call.sid].caller_id,
                                        extract_last_4_digits(call.message))) = 1
    /\ \A i \in 1..Len(call.log) : call.log[i].ok

\* C14: when a session that is not awaiting a PIN and has a known caller sends
\* a message whose four digits end exactly one of the caller's accounts, that
\* account becomes the selected account, account_selected and awaiting_pin
\* become true and the reply asks for the PIN without a call of the LLM.
C14_DigitsSelectTheAccount ==
    OneAccountMatchesDigits =>
        /\ call.done
        /\ ~Asked("llm")
        /\ session_contexts[call.sid].account_selected
        /\ session_contexts[call.sid].awaiting_pin
        /\ \E k \in accounts_ending_with(session_contexts[call.sid].caller_id,
                                         extract_last_4_digits(call.message)) :
              /\ session_contexts[call.sid].selected_account = sample_accounts[k].account_number
              /\ call.response =
                    Content(<<"Thank you for confirming your account",
                              "please provide your 4-digit PIN">>,
                            sample_accounts[k].masked_account, None)

\* The full and the masked numbers of the accounts of the directory.
real_account_numbers ==
    {sample_accounts[k].account_number : k \in 1..Len(sample_accounts)} \cup
    {sample_accounts[k].masked_account : k \in 1..Len(sample_accounts)}

\* The step recorded in call is a process_message that looked up the accounts
\* of the caller for the four digits of the message, and none of them ends
\* with the digits.
NoAccountMatchesDigits ==
    /\ call.op = "process_message"
    /\ call.pins = {}
    /\ \E i \in 1..Len(call.log) : call.log[i].api = "get_accounts_by_mobile" /\ call.log[i].ok
    /\ extract_last_4_digits(call.message) # None
    /\ call.sid \in DOMAIN session_contexts
    /\ session_contexts[call.sid].caller_id # None
    /\ accounts_ending_with(session_contexts[call.sid].caller_id,
                            extract_last_4_digits(call.message)) = {}

SpellsAccount(turn) ==
    \/ turn.content.acct \in real_account_numbers
    \/ \E j \in 1..Len(turn.tool_calls) :
          arg(turn.tool_calls[j].arguments, "account_number") \in real_account_numbers

\* C16: no turn of the conversation of any session (system, assistant, tool
\* call or tool response) contains a full or a masked number of an account of
\* the caller.
C16_NoAccountNumberInHistory ==
    \A s \in DOMAIN conversations :
        \A i \in 1..Len(conversations[s]) : ~SpellsAccount(conversations[s][i])

\* The k-th tool call of the batch is a validate_account call and its result,
\* written to the conversation as its tool response, is invalid.
InvalidAccountCall(k) ==
    /\ call.tool_calls[k].name = "validate_account"
    /\ \E i \in 1..Len(conversation_of(conversations, call.sid)) :
          /\ conversation_of(conversations, call.sid)[i].role = "tool"
          /\ conversation_of(conversations, call.sid)[i].tool_call_id = call.tool_calls[k].id
          /\ conversation_of(conversations, call.sid)[i].content = Plain("Account not found")

\* The batch the step processed holds a validate_pin call and a
\* validate_account call with an invalid result.
InvalidAccountWithPinBatch ==
    /\ call.op = "llm_response"
    /\ \E k \in 1..Len(call.tool_calls) : call.tool_calls[k].name = "validate_pin"
    /\ \E k \in 1..Len(call.tool_calls) : InvalidAccountCall(k)

\* C17: when the batch of tool calls of one LLM answer holds a validate_pin
\* call and a validate_account call whose result is invalid, the step does not
\* invoke the validate_pin tool (the backend is not asked to verify a PIN),
\* whatever the positions of the calls in the batch.
C17_InvalidAccountSkipsPinTool ==
    InvalidAccountWithPinBatch => ~Asked("verify_pin")

\* The same for the batches with one validate_account call.
OneValidationSkipsPinTool ==
    InvalidAccountWithPinBatch
    /\ Cardinality({k \in 1..Len(call.tool_calls) :
                      call.tool_calls[k].name = "validate_account"}) = 1
    => ~Asked("verify_pin")

\* The batch the step processed for a session with a known caller holds a tool
\* call whose account_number has at most four characters.
ShortNumberToolCall ==
    /\ call.op = "llm_response"
    /\ call.context.caller_id # None
    /\ \E k \in 1..Len(call.tool_calls) :
          /\ arg(call.tool_calls[k].arguments, "account_number") # None
          /\ len(arg(call.tool_calls[k].arguments, "account_number")) <= 4

\* C18: after a batch with a tool call whose account_number has at most four
\* characters, for a session whose caller id is known, the short value is
\* neither the selected account of the session nor the account of its
\* authentication record: what is recorded is a full account number of the
\* caller, or nothing when no account has that suffix.
C18_ShortNumberNeverRecorded ==
    ShortNumberToolCall =>
        /\ call.sid \in DOMAIN session_contexts =>
              session_contexts[call.sid].selected_account \in AccountNumbers \cup {None}
        /\ call.sid \in DOMAIN authenticated_sessions =>
              authenticated_sessions[call.sid].account \in AccountNumbers

\* The first tool call of the batch raises in _process_tool_calls: its
\* arguments are no JSON object, or no service lists the tool.
RaisingBatch ==
    /\ call.op = "llm_response"
    /\ call.tool_calls # <<>>
    /\ \/ json_loads_raises(call.tool_calls[1].arguments)
       \/ call.tool_calls[1].name \notin ACCOUNT_TOOLS \cup AUTH_TOOLS \cup MOBILE_AUTH_TOOLS

\* A request of the step to the backend failed or was answered negatively.
BackendFailed ==
    \E i \in 1..Len(call.log) :
        call.log[i].api \in {"get_accounts_by_mobile", "verify_pin", "get_account_details"}
        /\ ~call.log[i].ok

\* C19: process_message never raises.  Whatever the message, the state of the
\* session, the answer of the LLM and the failure of the backend, no exception
\* leaves a step of process_message: the step returns a response or is
\* waiting for the LLM, and when a tool call raises the step returns the
\* fallback response.
C19_ProcessMessageNeverRaises ==
    call.op \in {"process_message", "llm_response", "llm_final_response"} =>
        /\ call.exc = None
        /\ call.done => call.response # NoContent
        /\ ~call.done => call.log # <<>> /\ call.log[Len(call.log)] = llm_request
        /\ RaisingBatch => call.done /\ call.response = fallback_response

\* A tool call raised and the step returned the fallback response.
C19_Witness ==
    /\ RaisingBatch
    /\ call.done
    /\ call.exc = None
    /\ call.response = fallback_response

\* The texts of the exceptions: str(e).
ExceptionTexts == {"ValueError", "KeyError", "Exception", "UnboundLocalError"}

\* The text holds the text of an exception.
SpellsException(content) ==
    \E i \in 1..Len(content.text) : content.text[i] \in ExceptionTexts

\* C20: the text of an exception raised by the backend or by a tool call is
\* never written to a turn of a conversation and never returned to the user.
C20_NoExceptionTextInHistory ==
    /\ ~SpellsException(call.response)
    /\ \A s \in DOMAIN conversations :
          \A i \in 1..Len(conversations[s]) : ~SpellsException(conversations[s][i].content)

\* The same, for the response alone.
NoExceptionTextReturned == ~SpellsException(call.response)

(***************************************************************************)
(* Concurrency of the requests of a session, checked under Spec.           *)
(***************************************************************************)
\* A process_message call of the session ran from its start to its return
\* while another call of the same session was suspended at the LLM: it read
\* and wrote the stores between the reads and the writes of the suspended call.
RanInsideSuspendedCall ==
    /\ call.op = "process_message"
    /\ call.done
    /\ \E c \in inflight : c.sid = call.sid

\* C21: two process_message calls of the same session are serialized: no
\* call reads or writes the context, the conversation or the authentication
\* record of the session between the reads and the writes of another call of
\* that session.
C21_SameSessionCallsSerialized == ~RanInsideSuspendedCall

\* The call that this step resumed was suspended at the LLM when its session
\* was ended: the conversation it had written was gone when it resumed.
ResumedAfterEnd ==
    /\ call.op \in {"llm_response", "llm_final_response"}
    /\ "conversations" \notin call.had

\* C22: a process_message call that resumes after end_session has ended its
\* session works on a freshly initialized session: the conversation starts
\* with the system prompt, and the call executes no tool call, selects no
\* account and authenticates nothing on behalf of the ended session.
C22_ResumedCallSeesFreshSession ==
    ResumedAfterEnd =>
        /\ conversation_of(conversations, call.sid)[1] = _get_initial_prompt[1]
        /\ \A i \in 1..Len(call.log) : call.log[i].api = "llm"
        /\ call.sid \notin DOMAIN authenticated_sessions
        /\ call.sid \in DOMAIN session_contexts =>
              ~session_contexts[call.sid].account_selected

(***************************************************************************)
(* The field queries of an authenticated session, checked under Spec.      *)
(***************************************************************************)
\* The session was authenticated when process_message looked at it: it had
\* an authentication record that the sweep of the step did not expire, and
\* the message named no restricted product.
AuthenticatedBefore ==
    /\ call.op = "process_message"
    /\ "authenticated_sessions" \in call.had
    /\ call.sid \notin call.expired
    /\ ~contains_restricted_keywords(call.message, restricted_keywords)

\* The field query of the step was answered by the backend.
FieldLookupSucceeded ==
    call.log # <<>> /\ call.log[1].api = "get_account_details" /\ call.log[1].ok

ContextAccountNumbers == {"5678", "1311002345678", "1308001234567"}

\* The lists given to set_retrieved_accounts: the first k accounts of the
\* directory.
ContextAccountLists ==
    { [i \in 1..k |-> [account_number |-> sample_accounts[i].account_number,
                       masked_account |-> sample_accounts[i].masked_account]] :
        k \in {0, 1, 3} }

\* The record of a call: what was called, for which session, with which
\* argument, the exception it raised and the store it was called on.
ContextCall(op, sid, argument, exc) ==
    [op |-> op, sid |-> sid, arg |-> argument, exc |-> exc, before |-> session_contexts]

InitContext ==
    /\ now = 0
    /\ authenticated_sessions = EmptyDict
    /\ session_contexts = EmptyDict
    /\ conversations = EmptyDict
    /\ inflight = {}
    /\ ever_authenticated = {}
    /\ call = [op |-> "init", sid |-> None, arg |-> None, exc |-> None, before |-> EmptyDict]

ContextInitialize ==
    /\ \E s \in Sessions, caller_id \in CallerIds :
          /\ session_contexts' = initialize_session(session_contexts, s, caller_id)
          /\ call' = ContextCall("initialize_session", s, caller_id, None)
    /\ UNCHANGED <<now, authenticated_sessions, conversations, inflight, ever_authenticated>>

ContextSetRetrievedAccounts ==
    /\ \E s \in Sessions, accounts \in ContextAccountLists :
          /\ session_contexts' = set_retrieved_accounts(session_contexts, s, accounts)
          /\ call' = ContextCall("set_retrieved_accounts", s, accounts, None)
    /\ UNCHANGED <<now, authenticated_sessions, conversations, inflight, ever_authenticated>>

ContextSetSelectedAccount ==
    /\ \E s \in Sessions, account_number \in ContextAccountNumbers :
          /\ session_contexts' = set_selected_account(session_contexts, s, account_number).ctxs
          /\ call' = ContextCall("set_selected_account", s, account_number,
                         set_selected_account(session_contexts, s, account_number).exc)
    /\ UNCHANGED <<now, authenticated_sessions, conversations, inflight, ever_authenticated>>

ContextEndSession ==
    /\ \E s \in Sessions :
          /\ session_contexts' = context_end_session(session_contexts, s).ctxs
          /\ call' = ContextCall("end_session", s, None, None)
    /\ UNCHANGED <<now, authenticated_sessions, conversations, inflight, ever_authenticated>>

NextContext ==
    \/ ContextInitialize
    \/ ContextSetRetrievedAccounts
    \/ ContextSetSelectedAccount
    \/ ContextEndSession

SpecContext == InitContext /\ [][NextContext]_vars

(***************************************************************************)
(* Properties of the SessionContextManager, checked under SpecContext.     *)
(***************************************************************************)
\* The context a call found for its session: a new one when it had none.
ContextBefore ==
    get_session_context(call.before, call.sid)[call.sid]

\* C24: set_selected_account with a number of fewer than 10 characters raises
\* the validation error and leaves the store of the contexts as it was: no
\* key of the context changes and no context is created.  With 10 characters
\* or more it stores the number and sets account_selected and awaiting_pin,
\* and nothing else of the context changes.
C24_SetSelectedAccountGuard ==
    call.op = "set_selected_account" =>
        IF len(call.arg) < 10
        THEN call.exc = "ValueError" /\ session_contexts = call.before
        ELSE /\ call.exc = None
             /\ session_contexts[call.sid] =
                   [ContextBefore EXCEPT !.selected_account = call.arg,
                                         !.account_selected = TRUE,
                                         !.awaiting_pin = TRUE]
             /\ \A s \in DOMAIN call.before \ {call.sid} :
                   session_contexts[s] = call.before[s]

\* The four digits were refused for a session that has no context.
C24_Witness ==
    /\ call.op = "set_selected_account"
    /\ call.arg = "5678"
    /\ call.exc = "ValueError"
    /\ call.sid \notin DOMAIN session_contexts
    /\ session_contexts # EmptyDict

\* C25: set_retrieved_accounts replaces the list of the session and resets
\* the selection: account_selected is false, selected_account is absent and
\* awaiting_pin is false, whatever was selected before.
C25_RetrievedAccountsResetSelection ==
    call.op = "set_retrieved_accounts" =>
        session_contexts[call.sid] =
            [ContextBefore EXCEPT !.retrieved_accounts = call.arg,
                                  !.account_retrieved = TRUE,
                                  !.account_selected = FALSE,
                                  !.selected_account = None,
                                  !.awaiting_pin = FALSE]

\* A new list arrived for a session that had a list and a selected account.
C25_Witness ==
    /\ call.op = "set_retrieved_accounts"
    /\ call.sid \in DOMAIN call.before
    /\ call.before[call.sid].account_selected
    /\ call.before[call.sid].selected_account \in AccountNumbers
    /\ call.before[call.sid].retrieved_accounts # <<>>
    /\ call.arg # call.before[call.sid].retrieved_accounts
    /\ session_contexts[call.sid].selected_account = None

(***************************************************************************)
(* FlowStep, ServiceFlow and FlowManager                                   *)
(* (src/src/core/flow/flow_manager.py)                                     *)
(*                                                                         *)
(* A flow context is a dict.  The Python values True and False that the    *)
(* steps write into it are the strings PyTrue and PyFalse, and the         *)
(* non-empty responseData list that validate_account returns as "valid"    *)
(* is the string "responseData": like the list it is truthy and differs    *)
(* from True.  The lambdas of a step are named by the step that declares   *)
(* them, None for a step that declares none.                               *)
(***************************************************************************)
PyTrue == "True"

PyFalse == "False"

\* bool(value)
truthy(value) == value \notin {PyFalse, None, ""}

\* d.get(key, default)
get(d, key, default) == IF key \in DOMAIN d THEN d[key] ELSE default

FlowStep(name, tool_name, required_args, precondition, postcondition, result_processor) ==
    [name |-> name, tool_name |-> tool_name, required_args |-> required_args,
     precondition |-> precondition, postcondition |-> postcondition,
     result_processor |-> result_processor]

\* self.precondition(context), for the preconditions the flows declare.
precondition_holds(step, context) ==
    IF step.precondition = "validate_pin"
    THEN /\ get(context, "validate_account_valid", PyFalse) = PyTrue
         /\ ~truthy(get(context, "validate_pin_valid", PyFalse))
    ELSE IF step.precondition = "get_account_details"
    THEN get(context, "validate_pin_valid", PyFalse) = PyTrue
    ELSE IF step.precondition = "get_currency_details"
    THEN /\ get(context, "field_name", None) = "currency"
         /\ get(context, "get_account_field_status", None) = "success"
         /\ truthy(get(context, "field_value", ""))
    ELSE IF step.precondition = "get_account_type_details"
    THEN /\ get(context, "field_name", None) = "account_type"
         /\ get(context, "get_account_field_status", None) = "success"
         /\ truthy(get(context, "field_value", ""))
    ELSE TRUE

\* A FlowStep.can_execute that does not look at the precondition.
can_execute_without_precondition(step, context) ==
    step.required_args \subseteq DOMAIN context

\* FlowStep.can_execute
can_execute(step, context) ==
    /\ \A a \in step.required_args : a \in DOMAIN context
    /\ (step.precondition # None => precondition_holds(step, context))

\* FlowStep.build_args; no step of the flows declares optional arguments.
build_args(step, context) == [a \in step.required_args |-> context[a]]

\* result.get("valid", False): AuthenticationService.validate_account
\* returns gstatus and responseData, validate_pin a bool, and the other
\* tools no such key.
result_valid(tool_name, result) ==
    IF tool_name = "validate_account"
    THEN IF result.valid THEN "responseData" ELSE PyFalse
    ELSE IF tool_name = "validate_pin"
    THEN IF result.valid THEN PyTrue ELSE PyFalse
    ELSE PyFalse

\* result.get("value", ""): get_account_field returns the value of the field
\* when the lookup succeeded, here the name of the field (every field of the
\* accounts of the directory has a non-empty value).
result_value(tool_name, args, result) ==
    IF tool_name = "get_account_field" /\ result.status = "success"
    THEN args.field_name
    ELSE ""

\* FlowStep.process_result: the fields the result_processor extracts.
process_result(step, args, result) ==
    IF step.result_processor = "validate_account"
    THEN DictSet(EmptyDict, "validate_account_valid", result_valid(step.tool_name, result))
    ELSE IF step.result_processor = "validate_pin"
    THEN DictSet(EmptyDict, "validate_pin_valid", result_valid(step.tool_name, result))
    ELSE IF step.result_processor = "get_account_field"
    THEN DictSet(DictSet(EmptyDict, "get_account_field_status", result.status),
                 "field_value", result_value(step.tool_name, args, result))
    ELSE EmptyDict

\* FlowStep.validate_result; the postcondition "valid" of a registered flow
\* is lambda args, result: bool(result.get("valid")).
validate_result(step, args, result) ==
    step.postcondition # None => truthy(result_valid(step.tool_name, result))

\* for key, value in extracted.items(): context[key] = value
merged(context, extracted) ==
    [k \in DOMAIN context \cup DOMAIN extracted |->
        IF k \in DOMAIN extracted THEN extracted[k] ELSE context[k]]

\* context["flow_results"][step.name] = entry
with_flow_result(context, name, entry) ==
    DictSet(context, "flow_results", DictSet(context["flow_results"], name, entry))

\* The locals of ServiceFlow.execute: the steps of the flow, the index of
\* the step the loop is at (past the last one when the loop is left), the
\* running context and executed_steps; returned once the context is returned.
Execution(steps, i, context, executed_steps, fault, returned) ==
    [steps |-> steps, i |-> i, context |-> context, executed_steps |-> executed_steps,
     fault |-> fault, returned |-> returned]

\* context = initial_context.copy(); executed_steps = []; context["flow_results"] = {}
execute_start(steps, initial_context, fault) ==
    Execution(steps, 1, DictSet(initial_context, "flow_results", EmptyDict), <<>>, fault,
              FALSE)

\* An iteration that merges the extracted fields of a step whose
\* postcondition failed.
step_result_merging_on_failure(e, step, args, result) ==
    IF result.exc # None
    THEN [e EXCEPT !.context = with_flow_result(@, step.name,
                                   [status |-> "error", error |-> result.exc]),
                   !.i = Len(e.steps) + 1]
    ELSE IF ~validate_result(step, args, result)
    THEN [e EXCEPT !.context = merged(with_flow_result(@, step.name,
                                   [status |-> "validation_failed", result |-> result]),
                                   process_result(step, args, result)),
                   !.i = Len(e.steps) + 1]
    ELSE [e EXCEPT !.context = merged(with_flow_result(@, step.name,
                                          [status |-> "success", result |-> result]),
                                      process_result(step, args, result)),
                   !.executed_steps = Append(@, step.name),
                   !.i = @ + 1]

\* An iteration that appends to executed_steps before it validates.
step_result_appending_first(e, step, args, result) ==
    IF result.exc # None
    THEN [e EXCEPT !.context = with_flow_result(@, step.name,
                                   [status |-> "error", error |-> result.exc]),
                   !.i = Len(e.steps) + 1]
    ELSE IF ~validate_result(step, args, result)
    THEN [e EXCEPT !.context = with_flow_result(@, step.name,
                                   [status |-> "validation_failed", result |-> result]),
                   !.executed_steps = Append(@, step.name),
                   !.i = Len(e.steps) + 1]
    ELSE [e EXCEPT !.context = merged(with_flow_result(@, step.name,
                                          [status |-> "success", result |-> result]),
                                      process_result(step, args, result)),
                   !.executed_steps = Append(@, step.name),
                   !.i = @ + 1]

\* The iteration of the loop of ServiceFlow.execute for a step that can
\* execute, given the result of registry.execute_tool: an exception and a
\* failed postcondition are recorded and break the loop, a success is
\* recorded, its extracted fields are merged and the step is appended.
step_result(e, step, args, result) ==
    IF result.exc # None
    THEN [e EXCEPT !.context = with_flow_result(@, step.name,
                                   [status |-> "error", error |-> result.exc]),
                   !.i = Len(e.steps) + 1]
    ELSE IF ~validate_result(step, args, result)
    THEN [e EXCEPT !.context = with_flow_result(@, step.name,
                                   [status |-> "validation_failed", result |-> result]),
                   !.i = Len(e.steps) + 1]
    ELSE [e EXCEPT !.context = merged(with_flow_result(@, step.name,
                                          [status |-> "success", result |-> result]),
                                      process_result(step, args, result)),
                   !.executed_steps = Append(@, step.name),
                   !.i = @ + 1]

\* context["executed_steps"] = executed_steps; return context
execute_return(e) ==
    [e EXCEPT !.context = DictSet(@, "executed_steps", e.executed_steps),
              !.returned = TRUE]

\* The flows of FlowManager._register_standard_flows.
authentication ==
    << FlowStep("validate_account", "validate_account", {"account_number"},
                None, None, "validate_account"),
       FlowStep("validate_pin", "validate_pin", {"account_number", "pin"},
                "validate_pin", None, "validate_pin"),
       FlowStep("get_account_details", "get_account_details", {"account_number", "pin"},
                "get_account_details", None, None) >>

account_query ==
    << FlowStep("get_account_field", "get_account_field", {"account_number", "field_name"},
                None, None, "get_account_field"),
       FlowStep("get_currency_details", "get_currency_details", {"currency_code"},
                "get_currency_details", None, None),
       FlowStep("get_account_type_details", "get_account_type_details", {"account_type"},
                "get_account_type_details", None, None) >>

\* A flow an application registers with FlowManager.register_flow: its
\* first two steps declare the postcondition "valid".
verified_query ==
    << FlowStep("check_account", "validate_account", {"account_number"},
                None, "valid", "validate_account"),
       FlowStep("check_pin", "validate_pin", {"account_number", "pin"},
                None, "valid", "validate_pin"),
       FlowStep("read_field", "get_account_field", {"account_number", "field_name"},
                "get_account_details", None, "get_account_field") >>

\* FlowManager.flows
flows ==
    ("authentication" :> authentication) @@ ("account_query" :> account_query) @@
    ("verified_query" :> verified_query)

(***************************************************************************)
(* ServiceFlow.execute alone, for every flow and initial context: the      *)
(* execution is in inflight, one action per iteration of its loop.         *)
(***************************************************************************)
FlowAccountNumbers == {None, "1311002345678", "9999999999999"}

FlowPins == {None, "1234", "5678"}

FlowFieldNames == {None, "balance", "currency", "account_type"}

\* The dict of the keys that are given (not None).
DictOf(account_number, pin, field_name, validate_pin_valid) ==
    LET d == [account_number |-> account_number, pin |-> pin, field_name |-> field_name,
              validate_pin_valid |-> validate_pin_valid]
    IN  [k \in {x \in DOMAIN d : d[x] # None} |-> d[k]]

\* What an earlier execution left in a context that is passed in again.
EarlierResults ==
    ("flow_results" :> ("get_account_details" :> [status |-> "success", result |-> None])) @@
    ("executed_steps" :> <<"get_account_details">>)

\* The contexts a flow is started with: the keys of the caller, alone or in
\* the context an earlier execution returned.
InitialContexts ==
    { merged(DictOf(a, p, f, v), earlier) :
        a \in FlowAccountNumbers, p \in FlowPins, f \in FlowFieldNames, v \in {None, PyTrue},
        earlier \in {EmptyDict, EarlierResults} }

FlowFaults ==
    { NoFault,
      [NoFault EXCEPT !.verify_pin = "malformed"],
      [NoFault EXCEPT !.get_account_details = "error"],
      [NoFault EXCEPT !.get_account_details = "malformed"] }

\* What is known of the execution: the flow and the context it started
\* with, the last iteration (op, its step and the locals before it), the
\* tools invoked so far, the steps skipped so far, the step that broke the
\* loop and the context it found.
FlowCall(op, flow_name, initial_context, step, before, invoked, skipped, halted, halted_at) ==
    [op |-> op, flow |-> flow_name, initial_context |-> initial_context, step |-> step,
     before |-> before, invoked |-> invoked, skipped |-> skipped, halted |-> halted,
     halted_at |-> halted_at]

\* FlowManager.execute_flow(flow_name, context) up to the loop.
InitFlow ==
    /\ now = 0
    /\ authenticated_sessions = EmptyDict
    /\ session_contexts = EmptyDict
    /\ conversations = EmptyDict
    /\ ever_authenticated = {}
    /\ \E flow_name \in DOMAIN flows, initial_context \in InitialContexts, fault \in FlowFaults :
           /\ inflight = {execute_start(flows[flow_name], initial_context, fault)}
           /\ call = FlowCall("execute_flow", flow_name, initial_context, None,
                              execute_start(flows[flow_name], initial_context, fault),
                              <<>>, {}, None, EmptyDict)

\* if not step.can_execute(context): continue
FlowStepSkipped ==
    \E e \in inflight :
        /\ ~e.returned
        /\ e.i <= Len(e.steps)
        /\ ~can_execute(e.steps[e.i], e.context)
        /\ inflight' = {[e EXCEPT !.i = @ + 1]}
        /\ call' = [call EXCEPT !.op = "skipped", !.step = e.steps[e.i].name, !.before = e,
                                !.skipped = @ \cup {e.steps[e.i].name}]
        /\ UNCHANGED <<now, authenticated_sessions, session_contexts, conversations,
                       ever_authenticated>>

\* The names in executed_steps, as the keys of a dict.
steps_named(executed_steps) ==
    [n \in {executed_steps[j] : j \in 1..Len(executed_steps)} |-> TRUE]

\* The history after an iteration that invoked the tool of its step.
Invoked(e, step, after) ==
    [call EXCEPT !.op = get(after.context["flow_results"], step.name, [status |-> None]).status,
                 !.step = step.name,
                 !.before = e,
                 !.invoked = Append(@, [step |-> step.name, tool_name |-> step.tool_name,
                                        args |-> build_args(step, e.context)]),
                 !.halted = IF step.name \in DOMAIN steps_named(after.executed_steps)
                            THEN @ ELSE step.name,
                 !.halted_at = IF step.name \in DOMAIN steps_named(after.executed_steps)
                               THEN @ ELSE e.context]

\* args = step.build_args(context); result = registry.execute_tool(...) and
\* what the loop makes of it.
FlowStepExecuted ==
    \E e \in inflight :
        /\ ~e.returned
        /\ e.i <= Len(e.steps)
        /\ can_execute(e.steps[e.i], e.context)
        /\ \E after \in {step_result(e, e.steps[e.i], build_args(e.steps[e.i], e.context),
                             registry_execute_tool(e.steps[e.i].tool_name,
                                 build_args(e.steps[e.i], e.context), e.fault))} :
               /\ inflight' = {after}
               /\ call' = Invoked(e, e.steps[e.i], after)
        /\ UNCHANGED <<now, authenticated_sessions, session_contexts, conversations,
                       ever_authenticated>>

\* The loop is left: the context is returned with executed_steps.
FlowReturn ==
    \E e \in inflight :
        /\ ~e.returned
        /\ e.i > Len(e.steps)
        /\ inflight' = {execute_return(e)}
        /\ call' = [call EXCEPT !.op = "return", !.step = None, !.before = e]
        /\ UNCHANGED <<now, authenticated_sessions, session_contexts, conversations,
                       ever_authenticated>>

NextFlow == FlowStepSkipped \/ FlowStepExecuted \/ FlowReturn

SpecFlow == InitFlow /\ [][NextFlow]_vars

(***************************************************************************)
(* Properties of ServiceFlow.execute, checked under SpecFlow.              *)
(***************************************************************************)
FlowExecution == CHOOSE e \in inflight : TRUE

IterationDone == call.op \in {"skipped", "success", "validation_failed", "error"}

IteratedStep == call.before.steps[call.before.i]

RequiredKeyMissing ==
    \E a \in IteratedStep.required_args : a \notin DOMAIN call.before.context

PreconditionFalse ==
    IteratedStep.precondition # None /\ ~precondition_holds(IteratedStep, call.before.context)

ToolInvokedFor(name) == \E j \in 1..Len(call.invoked) : call.invoked[j].step = name

\* The step left no trace: no tool call, no flow_results entry, no place in
\* executed_steps, either the running one or the returned one.
LeftNoTrace(name) ==
    /\ ~ToolInvokedFor(name)
    /\ name \notin DOMAIN FlowExecution.context["flow_results"]
    /\ name \notin DOMAIN steps_named(FlowExecution.executed_steps)
    /\ FlowExecution.returned =>
           name \notin DOMAIN steps_named(FlowExecution.context["executed_steps"])

\* C26: in ServiceFlow.execute a step is skipped exactly when a required
\* argument key is missing from the running context or its precondition is
\* false; a skipped step has its tool not invoked, gets no flow_results entry
\* and is not in executed_steps, and the loop goes on with the next declared
\* step on the unchanged context; a step that is not skipped has its tool
\* invoked.
C26_SkippedExactlyWhenCannotExecute ==
    /\ IterationDone =>
           /\ (call.op = "skipped") <=> (RequiredKeyMissing \/ PreconditionFalse)
           /\ call.op = "skipped" =>
                  /\ FlowExecution.i = call.before.i + 1
                  /\ ~FlowExecution.returned
                  /\ FlowExecution.context = call.before.context
           /\ call.op # "skipped" =>
                  /\ call.invoked # <<>>
                  /\ call.invoked[Len(call.invoked)].step = IteratedStep.name
                  /\ call.invoked[Len(call.invoked)].tool_name = IteratedStep.tool_name
    /\ \A name \in call.skipped : LeftNoTrace(name)

\* A step with all its keys was skipped for its precondition and a later
\* step of the flow was executed.
C26_Witness ==
    /\ call.op = "success"
    /\ call.before.i > 1
    /\ \E name \in call.skipped :
           \E j \in 1..call.before.i - 1 :
               /\ call.before.steps[j].name = name
               /\ call.before.steps[j].required_args \subseteq DOMAIN call.initial_context

\* The fields of a flow context other than the two that execute itself keeps.
FieldsOf(context) == DictDel(DictDel(context, "flow_results"), "executed_steps")

\* The result registry.execute_tool gave the step of the last iteration.
IteratedResult ==
    registry_execute_tool(IteratedStep.tool_name,
                          build_args(IteratedStep, call.before.context), call.before.fault)

FlowResults == FlowExecution.context["flow_results"]

\* C27: in ServiceFlow.execute a step whose tool call raises is recorded with
\* status error and a step whose postcondition fails with status
\* validation_failed; once a step is so recorded no later step's tool is
\* invoked in that execution, nothing more is recorded, and the fields
\* extracted from the halted step's result are not merged: the context keeps
\* the fields it had when the step began.
C27_FailedStepHaltsFlow ==
    /\ IterationDone /\ call.op # "skipped" =>
           /\ (call.op = "error") <=> (IteratedResult.exc # None)
           /\ (call.op = "validation_failed") <=>
                  /\ IteratedResult.exc = None
                  /\ ~validate_result(IteratedStep,
                                      build_args(IteratedStep, call.before.context),
                                      IteratedResult)
    /\ \A name \in DOMAIN FlowResults :
           FlowResults[name].status # "success" => call.halted = name
    /\ call.halted # None =>
           /\ call.halted \in DOMAIN FlowResults
           /\ FlowResults[call.halted].status \in {"validation_failed", "error"}
           /\ call.invoked[Len(call.invoked)].step = call.halted
           /\ DictDel(FlowResults, call.halted) = call.halted_at["flow_results"]
           /\ FieldsOf(FlowExecution.context) = FieldsOf(call.halted_at)
           /\ FlowExecution.i > Len(FlowExecution.steps)

\* The declared steps after the one of that name.
StepsAfter(name) ==
    { j \in 1..Len(FlowExecution.steps) :
        \E k \in 1..j - 1 : FlowExecution.steps[k].name = name }

\* The execution returned after a failed postcondition although a later
\* step could have executed on the context.
C27_Witness ==
    /\ FlowExecution.returned
    /\ call.halted # None
    /\ FlowResults[call.halted].status = "validation_failed"
    /\ \E j \in StepsAfter(call.halted) :
           can_execute(FlowExecution.steps[j], FlowExecution.context)

\* The names of the declared steps, in declaration order.
StepNames == [j \in 1..Len(FlowExecution.steps) |-> FlowExecution.steps[j].name]

RecordedSuccess(name) == name \in DOMAIN FlowResults /\ FlowResults[name].status = "success"

\* C28: the context ServiceFlow.execute returns always carries
\* executed_steps and flow_results, whatever the initial context held under
\* these keys: executed_steps lists, in declaration order, exactly the steps
\* recorded with status success, and flow_results holds entries of declared
\* steps only, one per success step plus at most one that is not a success,
\* which belongs to the step that halted the flow.
C28_ReturnedContextCarriesResults ==
    FlowExecution.returned =>
        /\ {"executed_steps", "flow_results"} \subseteq DOMAIN FlowExecution.context
        /\ FlowExecution.context["executed_steps"] = SelectSeq(StepNames, RecordedSuccess)
        /\ \A name \in DOMAIN FlowResults :
               /\ \E j \in 1..Len(StepNames) : StepNames[j] = name
               /\ ToolInvokedFor(name)
               /\ FlowResults[name].status \in {"success", "validation_failed", "error"}
               /\ FlowResults[name].status # "success" => call.halted = name
        /\ Cardinality({name \in DOMAIN FlowResults : FlowResults[name].status # "success"}) <= 1
        /\ \A j \in 1..Len(call.invoked) : call.invoked[j].step \in DOMAIN FlowResults

\* A returned context of a flow that was started on the context of an
\* earlier execution, with a success step, a skipped step and a halting step.
C28_Witness ==
    /\ FlowExecution.returned
    /\ "executed_steps" \in DOMAIN call.initial_context
    /\ FlowExecution.context["executed_steps"] # <<>>
    /\ call.skipped # {}
    /\ call.halted # None

(***************************************************************************)
(* Properties of the standard flows, checked under SpecFlow.               *)
(***************************************************************************)
\* validate_account ran in this execution and returned that value of valid.
AccountValidated(valid) ==
    /\ "validate_account" \in DOMAIN FlowResults
    /\ FlowResults["validate_account"].status = "success"
    /\ FlowResults["validate_account"].result.valid = valid

\* The arguments the tool of that step was invoked with are those of the
\* initial context.
InvokedWith(name) ==
    \E j \in 1..Len(call.invoked) :
        /\ call.invoked[j].step = name
        /\ \A a \in DOMAIN call.invoked[j].args :
               call.invoked[j].args[a] = call.initial_context[a]

\* C29: in the standard authentication flow validate_pin is invoked only if
\* validate_account returned valid in that execution and the PIN is not
\* already marked valid, get_account_details is invoked only if the PIN is
\* marked valid, and with an invalid account neither of the two is invoked.
C29_AuthenticationFlowOrder ==
    call.flow = "authentication" =>
        /\ ToolInvokedFor("validate_pin") =>
               /\ AccountValidated(TRUE)
               /\ ~truthy(get(call.initial_context, "validate_pin_valid", PyFalse))
        /\ ToolInvokedFor("get_account_details") =>
               get(FlowExecution.context, "validate_pin_valid", PyFalse) = PyTrue
        /\ AccountValidated(FALSE) =>
               /\ ~ToolInvokedFor("validate_pin")
               /\ ~ToolInvokedFor("get_account_details")

\* The flow was started as _handle_field_query starts it, on a context of an
\* account number and a field name.
StartedAsFieldQuery ==
    /\ call.flow = "account_query"
    /\ DOMAIN call.initial_context = {"account_number", "field_name"}

\* The lookup of get_account_field succeeded with a non-empty value.
FieldLookedUp ==
    /\ RecordedSuccess("get_account_field")
    /\ FlowResults["get_account_field"].result.status = "success"
    /\ truthy(get(FlowExecution.context, "field_value", ""))

StepExecuted(name) ==
    ToolInvokedFor(name) /\ name \in DOMAIN steps_named(FlowExecution.context["executed_steps"])

\* C30: in the standard account_query flow started with an account number
\* and a field name, the get_currency_details step executes if and only if
\* the field name is "currency", the field lookup succeeded and its value is
\* non-empty, and get_account_type_details likewise for "account_type".
C30_DetailStepsFollowTheField ==
    StartedAsFieldQuery /\ FlowExecution.returned =>
        /\ StepExecuted("get_currency_details") <=>
               (call.initial_context["field_name"] = "currency" /\ FieldLookedUp)
        /\ StepExecuted("get_account_type_details") <=>
               (call.initial_context["field_name"] = "account_type" /\ FieldLookedUp)

(***************************************************************************)
(* The tool calls of an answer of the LLM, checked under Spec.  The        *)
(* requests to the banking API tell which tools ran: validate_account      *)
(* sends one get_account_details request each time it is executed,         *)
(* validate_pin one verify_pin request.                                    *)
(***************************************************************************)
\* The positions of the calls of that tool in the batch.
CallsOf(name) == {k \in 1..Len(call.tool_calls) : call.tool_calls[k].name = name}

\* The requests of the step to that endpoint of the banking API.
RequestsTo(api) == {i \in 1..Len(call.log) : call.log[i].api = api}

\* The requests of the step to the banking API.
BackendRequests ==
    {i \in 1..Len(call.log) : call.log[i].api \notin {"llm", "authenticate_session"}}

\* The batch holds one validate_account call, in any position, and no other
\* tool that asks for the details of an account.
OneValidateAccountCall ==
    /\ call.op = "llm_response"
    /\ Cardinality(CallsOf("validate_account")) = 1
    /\ CallsOf("get_account_details") = {}

\* C31: when the batch of tool calls of one answer of the LLM includes
\* validate_account, that call is executed before every other call of the
\* batch, whatever its position, and it is executed exactly once.
C31_ValidateAccountFirstAndOnce ==
    OneValidateAccountCall =>
        /\ Cardinality(RequestsTo("get_account_details")) = 1
        /\ \A i \in BackendRequests : \A j \in RequestsTo("get_account_details") : j <= i

\* The conversation of the session of the step.
Conversation == conversation_of(conversations, call.sid)

\* The position in the batch of its first validate_account call, the one the
\* first loop of _process_tool_calls executes.
FirstValidateAccount ==
    CHOOSE k \in CallsOf("validate_account") : \A j \in CallsOf("validate_account") : k <= j

\* The tool turns that answer the call of that id.
ToolTurnsOf(id) ==
    {i \in 1..Len(Conversation) :
        Conversation[i].role = "tool" /\ Conversation[i].tool_call_id = id}

\* The validate_account call of the batch returned that the account is not
\* valid.
AccountValidationFailed ==
    /\ call.op = "llm_response"
    /\ CallsOf("validate_account") # {}
    /\ \E i \in ToolTurnsOf(call.tool_calls[FirstValidateAccount].id) :
           Conversation[i].content = Plain("Account not found")

\* The assistant told the user that the account could not be found.
ToldAccountNotFound ==
    \E i \in 1..Len(Conversation) :
        /\ Conversation[i].role = "assistant"
        /\ Conversation[i].content.text = <<"I couldn't find an account ending with">>

\* C32: when the validate_account call of a batch returns that the account
\* is not valid, none of the remaining calls of the batch is executed and an
\* assistant message that the account could not be found is appended, for a
\* short and for a full-length account-number argument alike.
C32_FailedValidationAbandonsBatch ==
    AccountValidationFailed =>
        /\ \A k \in 1..Len(call.tool_calls) :
               k # FirstValidateAccount => ToolTurnsOf(call.tool_calls[k].id) = {}
        /\ RequestsTo("verify_pin") = {}
        /\ ToldAccountNotFound

\* The step asked the LLM at most that many times.
AskedLLMAtMost(k) == Cardinality(RequestsTo("llm")) <= k

\* The backend was asked no more often than the tool calls of the batch ask
\* it when each is executed once: validate_account and get_account_details
\* each fetch the details of an account once, validate_pin and
\* get_account_details each verify a PIN once.
EachToolCallAtMostOnce ==
    /\ Cardinality(RequestsTo("get_account_details")) <=
           Cardinality(CallsOf("validate_account")) + Cardinality(CallsOf("get_account_details"))
    /\ Cardinality(RequestsTo("verify_pin")) <=
           Cardinality(CallsOf("validate_pin")) + Cardinality(CallsOf("get_account_details"))

\* The LLM is asked once by the part of process_message before its first
\* await, once more after an answer with tool calls, and never after that.
LLMAskedAtMostTwice ==
    /\ call.op = "process_message" => AskedLLMAtMost(1) /\ (call.done => AskedLLMAtMost(0))
    /\ call.op = "llm_response" =>
           /\ AskedLLMAtMost(IF call.tool_calls # <<>> THEN 1 ELSE 0)
           /\ call.done => AskedLLMAtMost(0)
    /\ call.op = "llm_final_response" => AskedLLMAtMost(0) /\ call.done
    /\ \A c \in inflight : c.pc \in {"llm1", "llm2"}

\* A call that returned has a reply.
ReturnedWithReply ==
    call.op \in {"process_message", "llm_response", "llm_final_response"} /\ call.done =>
        call.exc = None /\ call.response # NoContent

\* C33: every process_message call asks the LLM at most twice, once with the
\* tools and once more only if the first answer carried tool calls, every
\* tool call of the batch is executed at most once, and the call ends with a
\* reply.
C33_BoundedWorkPerMessage ==
    /\ LLMAskedAtMostTwice
    /\ call.op = "llm_response" => EachToolCallAtMostOnce
    /\ ReturnedWithReply

(***************************************************************************)
(* The caller id of a request and the context of its session, checked      *)
(* under Spec.                                                             *)
(***************************************************************************)
\* The request went through _process_authentication_state: its message has
\* no restricted keyword, was not answered as a field query and does not ask
\* for the balance.
FunnelHandled ==
    /\ call.op = "process_message"
    /\ ~contains_restricted_keywords(call.message, restricted_keywords)
    /\ ~contains_phrase(message_lower(call.message), <<"balance">>)
    /\ ~(call.done /\ Len(call.response.text) = 3 /\ call.response.text[1] = "Your")

\* C34: when process_message is called with a caller id, that caller id is
\* the caller_id of the session's context when the authentication funnel
\* handles the message, also when the sweep of expired sessions of that same
\* call removes the session.
C34_FunnelSeesCallerId ==
    FunnelHandled /\ call.caller_id # None =>
        /\ call.sid \in DOMAIN session_contexts
        /\ session_contexts[call.sid].caller_id = call.caller_id

(***************************************************************************)
(* Invariants of the session contexts, checked under Spec.                 *)
(***************************************************************************)
\* C35: in every reachable state the context of every session has
\* account_selected true exactly when selected_account is present, and
\* awaiting_pin true only when an account is selected.
C35_SelectionFlagsFollowSelectedAccount ==
    \A s \in DOMAIN session_contexts :
        /\ session_contexts[s].account_selected <=> session_contexts[s].selected_account # None
        /\ session_contexts[s].awaiting_pin => session_contexts[s].account_selected

\* The request selected an account for a session that had none selected and
\* the session now awaits the PIN.
C35_Witness ==
    /\ call.op \in {"process_message", "llm_response"}
    /\ ~call.context.account_selected
    /\ call.sid \in DOMAIN session_contexts
    /\ session_contexts[call.sid].account_selected
    /\ session_contexts[call.sid].selected_account \in AccountNumbers
    /\ session_contexts[call.sid].awaiting_pin

\* C36: whenever a session is authenticated and also has a selected account,
\* the account of its authentication record is the selected account.
C36_AuthenticatedAccountIsSelected ==
    \A s \in DOMAIN authenticated_sessions \cap DOMAIN session_contexts :
        session_contexts[s].selected_account # None =>
            authenticated_sessions[s].account = session_contexts[s].selected_account

(***************************************************************************)
(* Expired authentication records and the activity refresh, under Spec.    *)
(***************************************************************************)
\* The step authenticated the session anew.
AuthenticatedAnew(s) ==
    /\ call.sid = s
    /\ \E i \in 1..Len(call.log) : call.log[i].api = "authenticate_session"

\* The reply of the step is the answer to a field query.
FieldQueryAnswered ==
    /\ field_name_of(call.message) # None
    /\ call.response = Content(<<"Your", field_name_of(call.message), "is">>, None, None)

\* C37: a record whose last activity lies more than 900 seconds back is not
\* brought back within the TTL by any step, the activity refresh of
\* process_message included, unless the step authenticates the session anew;
\* and the message of such a session gets no field query answer.
C37_ExpiredRecordStaysExpired ==
    [][\A s \in DOMAIN authenticated_sessions :
          now' - authenticated_sessions[s].last_activity > SESSION_TIMEOUT =>
              /\ \/ s \notin DOMAIN authenticated_sessions'
                 \/ now' - authenticated_sessions'[s].last_activity > SESSION_TIMEOUT
                 \/ AuthenticatedAnew(s)'
              /\ (call'.op = "process_message" /\ call'.sid = s) => ~FieldQueryAnswered']_vars

\* The message of a session whose record had expired named a field: the sweep
\* took the record and the step left the session unauthenticated.
C37_Witness ==
    /\ call.op = "process_message"
    /\ "authenticated_sessions" \in call.had
    /\ call.sid \in call.expired
    /\ field_name_of(call.message) # None
    /\ call.sid \notin DOMAIN authenticated_sessions

(***************************************************************************)
(* The pairing of tool-call turns and tool turns, under Spec.              *)
(***************************************************************************)
\* The turn before turn i of a conversation is the assistant's call of the
\* tool that turn i answers.
AnswersTurnBefore(turns, i) ==
    /\ i > 1
    /\ turns[i - 1].role = "assistant"
    /\ Len(turns[i - 1].tool_calls) = 1
    /\ turns[i - 1].tool_calls[1].id = turns[i].tool_call_id

\* C38: in every conversation each tool turn comes right after an assistant
\* turn with a single tool call whose id is the tool turn's tool_call_id, also
\* when the execution of the tool raised.
C38_ToolTurnFollowsItsToolCall ==
    \A s \in DOMAIN conversations :
        \A i \in 1..Len(conversations[s]) :
            conversations[s][i].role = "tool" => AnswersTurnBefore(conversations[s], i)

(***************************************************************************)
(* What a request for one session leaves of the other sessions, under Spec.*)
(***************************************************************************)
\* The entry of a session in a store is the same before and after the step.
EntryUnchanged(store, store_after, s) ==
    /\ s \in DOMAIN store <=> s \in DOMAIN store_after
    /\ s \in DOMAIN store => store_after[s] = store[s]

\* The step belongs to a request that names a session.
RequestStep ==
    call.op \in {"process_message", "llm_response", "llm_final_response",
                 "inject_prompt", "end_session"}

\* C39: a step of process_message, inject_prompt or end_session for one
\* session leaves the context, the conversation and the authentication record
\* of every other session as they were, except that the sweep of the step
\* removes all three entries of a session whose record it found expired.
C39_OtherSessionsUntouched ==
    [][RequestStep' =>
          \A b \in Sessions \ {call'.sid} :
              IF b \in call'.expired
              THEN /\ b \notin DOMAIN authenticated_sessions'
                   /\ b \notin DOMAIN conversations'
                   /\ b \notin DOMAIN session_contexts'
              ELSE /\ EntryUnchanged(authenticated_sessions, authenticated_sessions', b)
                   /\ EntryUnchanged(conversations, conversations', b)
                   /\ EntryUnchanged(session_contexts, session_contexts', b)]_vars

\* A message of s2 was answered while s1 was authenticated and had a
\* conversation and a context, and the sweep did not take s1.
C39_Witness ==
    /\ call.op = "process_message"
    /\ call.sid = "s2"
    /\ call.done
    /\ "s1" \notin call.expired
    /\ "s1" \in DOMAIN authenticated_sessions
    /\ "s1" \in DOMAIN conversations
    /\ "s1" \in DOMAIN session_contexts

(***************************************************************************)
(* The selected account and the retrieved accounts, under Spec.            *)
(***************************************************************************)
\* The account numbers of the accounts a session retrieved.
RetrievedAccountNumbers(s) ==
    {session_contexts[s].retrieved_accounts[i].account_number :
        i \in 1..Len(session_contexts[s].retrieved_accounts)}

\* C40: the selected account of a session, when it has one, is the account
\* number of one of the session's retrieved accounts.
C40_SelectedAccountWasRetrieved ==
    \A s \in DOMAIN session_contexts :
        session_contexts[s].selected_account # None =>
            session_contexts[s].selected_account \in RetrievedAccountNumbers(s)

=============================================================================
